---- MODULE Spec2Model ----
(***************************************************************************)
(* telecom-cart-api: the in-memory cart store with TTL (lazy expiry and a  *)
(* bounded sweeper), the cart service built on it, and the rehydration     *)
(* token codec.                                                            *)
(*                                                                         *)
(* Time is an integer clock `now` (Date.now()).  Every synchronous handler *)
(* runs at one instant, except sweep(), whose loop measures elapsed time   *)
(* itself and therefore sees the clock advance between its reads.  An      *)
(* async service method is cut at its awaits: the code between two awaits  *)
(* is one atomic step, and other calls, clock advances and sweeps may run  *)
(* between the steps.                                                      *)
(*                                                                         *)
(* An optional value (Cart | null, customer?, a token or none) is a        *)
(* sequence of length 0 or 1.  A Map is the sequence of its values in      *)
(* insertion order, keyed by their id.  crypto.randomUUID() is the next    *)
(* value of a counter.                                                     *)
(***************************************************************************)
EXTENDS Integers, Sequences, FiniteSets, TLC

VARIABLES
    carts,          \* SalesforceCartClient.carts: Map<string, Cart>
    sweepInterval,  \* SalesforceCartClient.sweepInterval: the timer set, if any
    sweepScanLimit, \* SalesforceCartClient.sweepScanLimit
    timers,         \* the interval timers set and not cleared
    unswept,        \* the map of a client given the same direct calls at the
                    \* same times, whose sweeper never runs
    now,            \* Date.now()
    nextId,         \* next cart id crypto.randomUUID() gives
    nextItemId,     \* next item id crypto.randomUUID() gives
    call,           \* per caller: the service method in progress and its locals
    held,           \* the token a client holds, with the items it was shown
    ev,             \* the store method run by the last step and what it returned
    resp            \* the service response delivered by the last step

vars == <<carts, sweepInterval, sweepScanLimit, timers, unswept, now, nextId, nextItemId,
          call, held, ev, resp>>

\* ---------------------------------------------------------------- bounds
MaxTime == 3
MaxCarts == 2
MaxCreated == 1
MaxItemIds == 2
MaxQty == 2
NumProcs == 2
MaxTimers == 2
MaxSwept == 3

\* ------------------------------------------------- program configuration
Ttl == 1
SweepScanLimit == 2
SweepBudgetMs == 1
MaxAgeMs == 2
DEFAULT_PRICE == 1000
TaxRatePct == 13

REHYDRATION_SECRET == "dev-secret-min-32-chars-long-key"

Procs == 1..NumProcs
CartIds == 1..MaxCarts
CreatedIds == 1..MaxCreated
ItemIds == 1..MaxItemIds
Skus == {"PLAN-BASIC", "SKU-001"}
Quantities == 1..MaxQty
CustomerInputs == {[email |-> "test@example.com"]}

\* Inputs of the token codec called on its own: item lists of up to two
\* lines, the secret in use and another one, and a range of maxAgeMs.
TokenItem == [sku : Skus, quantity : Quantities]
TokenItemLists == {<<>>} \cup {<<a>> : a \in TokenItem} \cup {<<a, b>> : a, b \in TokenItem}
ReplayLists == TokenItemLists \cup {<<a, b, c>> : a, b, c \in TokenItem}
OTHER_SECRET == "test-secret-min-32-chars-long-key"
Secrets == {REHYDRATION_SECRET, OTHER_SECRET}
MaxAges == 0..(MaxAgeMs + 1)
TimerIds == 1..MaxTimers
SweptIds == 1..MaxSwept
ScanLimits == 0..MaxSwept

\* ------------------------------------------------------------- numbers
\* A JavaScript number is a double.  Of its range the model keeps the
\* overflow: a sum or product beyond Number.MAX_VALUE is Infinity, and
\* Infinity stays Infinity.  MAX_VALUE stands for Number.MAX_VALUE (about
\* 1.8e308) and HugeQuantity for a whole number above half of it, such as
\* 1e308.
MAX_VALUE == 100000
Infinity == MAX_VALUE + 1
HugeQuantity == MAX_VALUE \div 2 + 1

Plus(a, b) == IF a + b > MAX_VALUE THEN Infinity ELSE a + b
Times(a, b) == IF a * b > MAX_VALUE THEN Infinity ELSE a * b

\* ------------------------------------------------------------- pricing
MOCK_PRICES == [s \in {"PLAN-5G-PLUS", "PLAN-BASIC", "ADDON-ROAM", "ADDON-DATA"} |->
                  CASE s = "PLAN-5G-PLUS" -> 2500
                    [] s = "PLAN-BASIC" -> 1500
                    [] s = "ADDON-ROAM" -> 500
                    [] OTHER -> 300]

getPrice(sku) == IF sku \in DOMAIN MOCK_PRICES THEN MOCK_PRICES[sku] ELSE DEFAULT_PRICE

\* Math.round(x * TAX_RATE) for an integer x >= 0: round half up.
RoundTax(subtotal) ==
    IF subtotal = Infinity THEN Infinity ELSE (subtotal * TaxRatePct + 50) \div 100

\* ---------------------------------------------------------- cart model
RECURSIVE SumLines(_)
SumLines(items) ==
    IF items = <<>> THEN 0
    ELSE Plus(Times(getPrice(Head(items).sku), Head(items).quantity),
              SumLines(Tail(items)))

calculateTotals(items) ==
    LET subtotal == SumLines(items)
        tax == RoundTax(subtotal)
    IN  [subtotal |-> subtotal, tax |-> tax, total |-> Plus(subtotal, tax)]

\* Faulty variant of createCart: the ttl is left out of expiresAt.
createCart_NoTtl(id, t) ==
    [id |-> id, items |-> <<>>,
     totals |-> [subtotal |-> 0, tax |-> 0, total |-> 0],
     customer |-> <<>>,
     createdAt |-> t, updatedAt |-> t, expiresAt |-> t]

createCart(id, t) ==
    [id |-> id, items |-> <<>>,
     totals |-> [subtotal |-> 0, tax |-> 0, total |-> 0],
     customer |-> <<>>,
     createdAt |-> t, updatedAt |-> t, expiresAt |-> t + Ttl]

\* items.findIndex(item => item.sku === sku), 1-based; 0 when there is none.
findIndex(items, sku) ==
    IF \E i \in 1..Len(items) : items[i].sku = sku
    THEN CHOOSE i \in 1..Len(items) :
            /\ items[i].sku = sku
            /\ \A j \in 1..(i - 1) : items[j].sku # sku
    ELSE 0

\* Faulty variant of mergeItem: the totals are left as they were.
mergeItem_StaleTotals(cart, sku, quantity, newItemId, t) ==
    LET existingIndex == findIndex(cart.items, sku)
        updatedItems ==
            IF existingIndex >= 1
            THEN [cart.items EXCEPT ![existingIndex].quantity = Plus(@, quantity)]
            ELSE Append(cart.items, [itemId |-> newItemId, sku |-> sku, quantity |-> quantity])
    IN  [cart EXCEPT !.items = updatedItems,
                     !.updatedAt = t]

\* Faulty variant of mergeItem: a new line goes to the front.
mergeItem_Prepends(cart, sku, quantity, newItemId, t) ==
    LET existingIndex == findIndex(cart.items, sku)
        updatedItems ==
            IF existingIndex >= 1
            THEN [cart.items EXCEPT ![existingIndex].quantity = Plus(@, quantity)]
            ELSE <<[itemId |-> newItemId, sku |-> sku, quantity |-> quantity]>> \o cart.items
    IN  [cart EXCEPT !.items = updatedItems,
                     !.totals = calculateTotals(updatedItems),
                     !.updatedAt = t]

\* Faulty variant of mergeItem: an existing line takes the new quantity
\* instead of the sum.
mergeItem_ReplacesQuantity(cart, sku, quantity, newItemId, t) ==
    LET existingIndex == findIndex(cart.items, sku)
        updatedItems ==
            IF existingIndex >= 1
            THEN [cart.items EXCEPT ![existingIndex].quantity = quantity]
            ELSE Append(cart.items, [itemId |-> newItemId, sku |-> sku, quantity |-> quantity])
    IN  [cart EXCEPT !.items = updatedItems,
                     !.totals = calculateTotals(updatedItems),
                     !.updatedAt = t]

\* Faulty variant of mergeItem: the line is appended whether or not the
\* sku is there.
mergeItem_AlwaysAppends(cart, sku, quantity, newItemId, t) ==
    LET updatedItems ==
            Append(cart.items, [itemId |-> newItemId, sku |-> sku, quantity |-> quantity])
    IN  [cart EXCEPT !.items = updatedItems,
                     !.totals = calculateTotals(updatedItems),
                     !.updatedAt = t]

mergeItem(cart, sku, quantity, newItemId, t) ==
    LET existingIndex == findIndex(cart.items, sku)
        updatedItems ==
            IF existingIndex >= 1
            THEN [cart.items EXCEPT ![existingIndex].quantity = Plus(@, quantity)]
            ELSE Append(cart.items, [itemId |-> newItemId, sku |-> sku, quantity |-> quantity])
    IN  [cart EXCEPT !.items = updatedItems,
                     !.totals = calculateTotals(updatedItems),
                     !.updatedAt = t]

\* Faulty variant of removeItem: the totals are left as they were.
removeItem_StaleTotals(cart, itemId, t) ==
    LET Keep(item) == item.itemId # itemId
        updatedItems == SelectSeq(cart.items, Keep)
    IN  [cart EXCEPT !.items = updatedItems,
                     !.updatedAt = t]

removeItem(cart, itemId, t) ==
    LET Keep(item) == item.itemId # itemId
        updatedItems == SelectSeq(cart.items, Keep)
    IN  [cart EXCEPT !.items = updatedItems,
                     !.totals = calculateTotals(updatedItems),
                     !.updatedAt = t]

\* { ...cart.customer, ...customer }
SpreadCustomer(old, new) ==
    LET base == IF old = <<>> THEN [k \in {} |-> ""] ELSE old[1]
    IN  [k \in DOMAIN base \cup DOMAIN new |-> IF k \in DOMAIN new THEN new[k] ELSE base[k]]

updateCustomer(cart, customer, t) ==
    [cart EXCEPT !.customer = <<SpreadCustomer(cart.customer, customer)>>,
                 !.updatedAt = t]

\* ------------------------------------------------- Map<string, Cart>
\* Position of key `id` in the map's insertion order; 0 when absent.
MapIndex(m, id) ==
    IF \E i \in 1..Len(m) : m[i].id = id
    THEN CHOOSE i \in 1..Len(m) : m[i].id = id
    ELSE 0

MapHas(m, id) == MapIndex(m, id) # 0

MapGet(m, id) == m[MapIndex(m, id)]

\* Map.set: an existing key keeps its position, a new key goes last.
MapSet(m, id, cart) ==
    IF MapHas(m, id) THEN [m EXCEPT ![MapIndex(m, id)] = cart] ELSE Append(m, cart)

MapDelete(m, id) ==
    LET Other(c) == c.id # id
    IN  SelectSeq(m, Other)

MapKeys(m) == {m[i].id : i \in 1..Len(m)}

\* ------------------------------------------------ SalesforceCartClient
\* Faulty variant of isExpired: expired from expiresAt on.
isExpired_Inclusive(cart, t) == t >= cart.expiresAt

\* Faulty variant of isExpired: the comparison turned around.
isExpired_Reversed(cart, t) == t < cart.expiresAt

isExpired(cart, t) == t > cart.expiresAt

\* Faulty variant of refreshTtl: the record is stamped as a new one.
refreshTtl_Restamps(cart, t) ==
    [cart EXCEPT !.createdAt = t, !.updatedAt = t, !.expiresAt = t + Ttl]

\* Faulty variant of refreshTtl: stamps updatedAt, leaves expiresAt.
refreshTtl_NoExtend(cart, t) == [cart EXCEPT !.updatedAt = t]

refreshTtl(cart, t) == [cart EXCEPT !.updatedAt = t, !.expiresAt = t + Ttl]

\* Each method gives the map it leaves, what it returns (ret: a cart or
\* null) and the error it throws ("" when it returns normally).

\* Faulty variant of create: the entries whose expiresAt is not later than
\* the new record's createdAt are dropped on the way.
clientCreate_DropsAtDeadline(m, cart) ==
    LET Later(c) == c.expiresAt > cart.createdAt
    IN  [carts |-> MapSet(SelectSeq(m, Later), cart.id, cart), ret |-> <<cart>>,
         thrown |-> ""]

clientCreate(m, cart) ==
    [carts |-> MapSet(m, cart.id, cart), ret |-> <<cart>>, thrown |-> ""]

\* Faulty variant of get: reports an expired entry absent but keeps it.
clientGet_NoEvict(m, id, t) ==
    IF ~MapHas(m, id) \/ isExpired(MapGet(m, id), t)
    THEN [carts |-> m, ret |-> <<>>, thrown |-> ""]
    ELSE LET refreshed == refreshTtl(MapGet(m, id), t)
         IN  [carts |-> MapSet(m, id, refreshed), ret |-> <<refreshed>>, thrown |-> ""]

\* Faulty variant of get: an entry is expired from its expiresAt on.
clientGet_ExpiredAtDeadline(m, id, t) ==
    IF ~MapHas(m, id)
    THEN [carts |-> m, ret |-> <<>>, thrown |-> ""]
    ELSE IF t >= MapGet(m, id).expiresAt
    THEN [carts |-> MapDelete(m, id), ret |-> <<>>, thrown |-> ""]
    ELSE LET refreshed == refreshTtl(MapGet(m, id), t)
         IN  [carts |-> MapSet(m, id, refreshed), ret |-> <<refreshed>>, thrown |-> ""]

\* Faulty variant of get: no expiry check, every entry found is refreshed.
clientGet_NoExpiry(m, id, t) ==
    IF ~MapHas(m, id)
    THEN [carts |-> m, ret |-> <<>>, thrown |-> ""]
    ELSE LET refreshed == refreshTtl(MapGet(m, id), t)
         IN  [carts |-> MapSet(m, id, refreshed), ret |-> <<refreshed>>, thrown |-> ""]

clientGet(m, id, t) ==
    IF ~MapHas(m, id)
    THEN [carts |-> m, ret |-> <<>>, thrown |-> ""]
    ELSE IF isExpired(MapGet(m, id), t)
    THEN [carts |-> MapDelete(m, id), ret |-> <<>>, thrown |-> ""]
    ELSE LET refreshed == refreshTtl(MapGet(m, id), t)
         IN  [carts |-> MapSet(m, id, refreshed), ret |-> <<refreshed>>, thrown |-> ""]

\* Faulty variant of update: stores the record as given, without refreshTtl.
clientUpdate_NoRefresh(m, cart, t) ==
    IF ~MapHas(m, cart.id)
    THEN [carts |-> m, ret |-> <<>>, thrown |-> "NotFoundError"]
    ELSE IF isExpired(MapGet(m, cart.id), t)
    THEN [carts |-> MapDelete(m, cart.id), ret |-> <<>>, thrown |-> "NotFoundError"]
    ELSE [carts |-> MapSet(m, cart.id, cart), ret |-> <<cart>>, thrown |-> ""]

\* Faulty variant of update: a missing id is inserted instead of refused.
clientUpdate_Upsert(m, cart, t) ==
    IF MapHas(m, cart.id) /\ isExpired(MapGet(m, cart.id), t)
    THEN [carts |-> MapDelete(m, cart.id), ret |-> <<>>, thrown |-> "NotFoundError"]
    ELSE LET refreshed == refreshTtl(cart, t)
         IN  [carts |-> MapSet(m, cart.id, refreshed), ret |-> <<refreshed>>, thrown |-> ""]

\* Faulty variant of update: expiry is judged on the record given, not on
\* the entry stored.
clientUpdate_ChecksGiven(m, cart, t) ==
    IF ~MapHas(m, cart.id)
    THEN [carts |-> m, ret |-> <<>>, thrown |-> "NotFoundError"]
    ELSE IF isExpired(cart, t)
    THEN [carts |-> MapDelete(m, cart.id), ret |-> <<>>, thrown |-> "NotFoundError"]
    ELSE LET refreshed == refreshTtl(cart, t)
         IN  [carts |-> MapSet(m, cart.id, refreshed), ret |-> <<refreshed>>, thrown |-> ""]

clientUpdate(m, cart, t) ==
    IF ~MapHas(m, cart.id)
    THEN [carts |-> m, ret |-> <<>>, thrown |-> "NotFoundError"]
    ELSE IF isExpired(MapGet(m, cart.id), t)
    THEN [carts |-> MapDelete(m, cart.id), ret |-> <<>>, thrown |-> "NotFoundError"]
    ELSE LET refreshed == refreshTtl(cart, t)
         IN  [carts |-> MapSet(m, cart.id, refreshed), ret |-> <<refreshed>>, thrown |-> ""]

\* Faulty variant of delete: a missing id is refused, as update refuses it.
clientDelete_Strict(m, id) ==
    IF MapHas(m, id)
    THEN [carts |-> MapDelete(m, id), ret |-> <<>>, thrown |-> ""]
    ELSE [carts |-> m, ret |-> <<>>, thrown |-> "NotFoundError"]

clientDelete(m, id) ==
    [carts |-> MapDelete(m, id), ret |-> <<>>, thrown |-> ""]

\* sweep(): the loop over carts.entries().  `entries` is what is left to
\* visit, `m` the map so far, `scanned` the count so far, `t` the clock at
\* the last read, `adv` the clock's advance before each later read (two
\* reads per entry: isExpired, then the budget check), `k` the reads done.
\* Gives the map and the clock when the loop ends, and the entries seen.
RECURSIVE sweepLoop(_, _, _, _, _, _, _)
sweepLoop(entries, m, scanned, t, startTime, adv, k) ==
    IF entries = <<>>
    THEN [carts |-> m, clock |-> t, scanned |-> scanned]
    ELSE LET cart == Head(entries)
             t1 == t + adv[k + 1]
             m1 == IF isExpired(cart, t1) THEN MapDelete(m, cart.id) ELSE m
             n1 == scanned + 1
             t2 == t1 + adv[k + 2]
         IN  IF n1 >= sweepScanLimit
             THEN [carts |-> m1, clock |-> t1, scanned |-> n1]
             ELSE IF t2 - startTime >= SweepBudgetMs
             THEN [carts |-> m1, clock |-> t2, scanned |-> n1]
             ELSE sweepLoop(Tail(entries), m1, n1, t2, startTime, adv, k + 2)

\* Faulty variant of sweep: the TTL of every entry kept is refreshed.
sweep_RefreshesKept(m, t, adv) ==
    LET r == sweepLoop(m, m, 0, t, t, adv, 0)
    IN  [r EXCEPT !.carts = [i \in 1..Len(r.carts) |-> refreshTtl(r.carts[i], r.clock)]]

sweep(m, t, adv) == sweepLoop(m, m, 0, t, t, adv, 0)

\* -------------------------------------------------- rehydration tokens
\* JSON.stringify: every leaf becomes text that carries its JSON type;
\* JSON.parse reads it back.  An item keeps whatever fields it has.  Text
\* that JSON.parse refuses has type "invalid"; a field that is not there
\* has type "undefined".
JsonNumber(n) == [type |-> "number", num |-> n]
JsonString(s) == [type |-> "string", str |-> s]
JsonValue(node) == IF node.type = "number" THEN node.num ELSE node.str

\* JSON.stringify writes Infinity as null.
stringifyItem(item) ==
    [k \in DOMAIN item |->
        IF k = "quantity"
        THEN (IF item[k] = Infinity THEN [type |-> "null"] ELSE JsonNumber(item[k]))
        ELSE JsonString(item[k])]

JSONstringify(payload) ==
    [type |-> "object",
     iat |-> JsonNumber(payload.iat),
     items |-> [type |-> "array",
                elems |-> [i \in 1..Len(payload.items) |-> stringifyItem(payload.items[i])]]]

\* Faulty variant of the parse of an item: only its sku is read back.
parseItem_SkuOnly(node) == [k \in DOMAIN node \cap {"sku"} |-> JsonValue(node[k])]

parseItem(node) == [k \in DOMAIN node |-> JsonValue(node[k])]

JSONparse(text) ==
    [iat |-> JsonValue(text.iat),
     items |-> [i \in 1..Len(text.items.elems) |-> parseItem(text.items.elems[i])]]

\* Payload texts a holder of a secret can sign that the declared payload
\* type does not allow: iat or items of another type or missing, items
\* whose entries lack a field or have one of the wrong type, an iat in the
\* future, text that is no JSON, and the text `null`.
RawIats ==
    {JsonNumber(t) : t \in 0..(MaxTime + 1)}
        \cup {JsonString("2026-01-01"), [type |-> "undefined"]}

RawElems ==
    {<<>>,
     <<[sku |-> JsonString("PLAN-BASIC"), quantity |-> JsonNumber(1)]>>,
     <<[sku |-> JsonString("PLAN-BASIC"), quantity |-> JsonString("1")]>>,
     <<[sku |-> JsonNumber(1), quantity |-> JsonNumber(1)]>>,
     <<[sku |-> JsonString("PLAN-BASIC")]>>}

RawItems ==
    {[type |-> "array", elems |-> e] : e \in RawElems}
        \cup {JsonString("PLAN-BASIC"), [type |-> "undefined"]}

RawTexts ==
    {[type |-> "object", iat |-> i, items |-> it] : i \in RawIats, it \in RawItems}
        \cup {[type |-> "invalid"], [type |-> "null"]}

\* Buffer.from(s).toString('base64url') and back.
base64url(text) == [b64 |-> text]
base64urlDecode(encoded) == encoded.b64

\* createHmac('sha256', secret).update(data).digest('base64url'): a MAC
\* is determined by, and here names, its key and its data.
createHmac(secret, data) == [mac |-> <<secret, data>>]

\* A token `a.b` is the sequence of its segments, <<a, b>>.
\* The payload text encoded, signed and joined with its signature.
signText(text, secret) ==
    LET encoded == base64url(text)
        signature == createHmac(secret, encoded)
    IN  <<encoded, signature>>

generateToken(payload, secret) == signText(JSONstringify(payload), secret)

createRehydrationToken(items, secret, t) ==
    generateToken([iat |-> t, items |-> items], secret)

NoPayload == [iat |-> 0, items |-> <<>>]

\* JSON.parse gives null for the text `null`, and `payload.iat` of null
\* throws a TypeError, outside the try block and not a TokenError.
ReadOfNull == "Cannot read properties of null (reading 'iat')"

\* The class of what verifyToken throws: TokenError for each message it
\* throws itself.
TokenErrorMessages ==
    {"Invalid token format", "Token signature invalid", "Token payload invalid",
     "Token payload malformed", "Token expired or invalid timestamp"}

errorName(thrown) == IF thrown \in TokenErrorMessages THEN "TokenError" ELSE "TypeError"

\* Faulty variant of verifyToken: the payload is decoded and parsed before
\* the signature is compared.
verifyToken_DecodesFirst(token, secret, maxAgeMs, t) ==
    IF Len(token) # 2
    THEN [thrown |-> "Invalid token format", payload |-> NoPayload]
    ELSE LET encoded == token[1]
             signature == token[2]
             expectedSignature == createHmac(secret, encoded)
             text == base64urlDecode(encoded)
         IN  IF text.type = "invalid"
             THEN [thrown |-> "Token payload invalid", payload |-> NoPayload]
             ELSE IF signature # expectedSignature
             THEN [thrown |-> "Token signature invalid", payload |-> NoPayload]
             ELSE IF text.type = "null"
             THEN [thrown |-> ReadOfNull, payload |-> NoPayload]
             ELSE IF text.iat.type # "number" \/ text.items.type # "array"
             THEN [thrown |-> "Token payload malformed", payload |-> NoPayload]
             ELSE LET payload == JSONparse(text)
                      age == t - payload.iat
                  IN  IF age > maxAgeMs \/ age < 0
                      THEN [thrown |-> "Token expired or invalid timestamp",
                            payload |-> NoPayload]
                      ELSE [thrown |-> "", payload |-> payload]

\* Faulty variant of verifyToken: an age of exactly maxAgeMs is refused.
verifyToken_AgeOffByOne(token, secret, maxAgeMs, t) ==
    IF Len(token) # 2
    THEN [thrown |-> "Invalid token format", payload |-> NoPayload]
    ELSE LET encoded == token[1]
             signature == token[2]
             expectedSignature == createHmac(secret, encoded)
         IN  IF signature # expectedSignature
             THEN [thrown |-> "Token signature invalid", payload |-> NoPayload]
             ELSE LET text == base64urlDecode(encoded)
                  IN  IF text.type = "invalid"
                      THEN [thrown |-> "Token payload invalid", payload |-> NoPayload]
                      ELSE IF text.type = "null"
                      THEN [thrown |-> ReadOfNull, payload |-> NoPayload]
                      ELSE IF text.iat.type # "number" \/ text.items.type # "array"
                      THEN [thrown |-> "Token payload malformed", payload |-> NoPayload]
                      ELSE LET payload == JSONparse(text)
                               age == t - payload.iat
                           IN  IF age >= maxAgeMs \/ age < 0
                               THEN [thrown |-> "Token expired or invalid timestamp",
                                     payload |-> NoPayload]
                               ELSE [thrown |-> "", payload |-> payload]

\* Faulty variant of verifyToken: only a future iat is refused.
verifyToken_NoMaxAge(token, secret, maxAgeMs, t) ==
    IF Len(token) # 2
    THEN [thrown |-> "Invalid token format", payload |-> NoPayload]
    ELSE LET encoded == token[1]
             signature == token[2]
             expectedSignature == createHmac(secret, encoded)
         IN  IF signature # expectedSignature
             THEN [thrown |-> "Token signature invalid", payload |-> NoPayload]
             ELSE LET text == base64urlDecode(encoded)
                  IN  IF text.type = "invalid"
                      THEN [thrown |-> "Token payload invalid", payload |-> NoPayload]
                      ELSE IF text.type = "null"
                      THEN [thrown |-> ReadOfNull, payload |-> NoPayload]
                      ELSE IF text.iat.type # "number" \/ text.items.type # "array"
                      THEN [thrown |-> "Token payload malformed", payload |-> NoPayload]
                      ELSE LET payload == JSONparse(text)
                               age == t - payload.iat
                           IN  IF age < 0
                               THEN [thrown |-> "Token expired or invalid timestamp",
                                     payload |-> NoPayload]
                               ELSE [thrown |-> "", payload |-> payload]

\* Faulty variant of verifyToken: any signature that is there passes.
verifyToken_NoSignatureCheck(token, secret, maxAgeMs, t) ==
    IF Len(token) # 2
    THEN [thrown |-> "Invalid token format", payload |-> NoPayload]
    ELSE LET encoded == token[1]
             signature == token[2]
             expectedSignature == createHmac(secret, encoded)
         IN  IF signature = <<>>
             THEN [thrown |-> "Token signature invalid", payload |-> NoPayload]
             ELSE LET text == base64urlDecode(encoded)
                  IN  IF text.type = "invalid"
                      THEN [thrown |-> "Token payload invalid", payload |-> NoPayload]
                      ELSE IF text.type = "null"
                      THEN [thrown |-> ReadOfNull, payload |-> NoPayload]
                      ELSE IF text.iat.type # "number" \/ text.items.type # "array"
                      THEN [thrown |-> "Token payload malformed", payload |-> NoPayload]
                      ELSE LET payload == JSONparse(text)
                               age == t - payload.iat
                           IN  IF age > maxAgeMs \/ age < 0
                               THEN [thrown |-> "Token expired or invalid timestamp",
                                     payload |-> NoPayload]
                               ELSE [thrown |-> "", payload |-> payload]

verifyToken(token, secret, maxAgeMs, t) ==
    IF Len(token) # 2
    THEN [thrown |-> "Invalid token format", payload |-> NoPayload]
    ELSE LET encoded == token[1]
             signature == token[2]
             expectedSignature == createHmac(secret, encoded)
         IN  IF signature # expectedSignature
             THEN [thrown |-> "Token signature invalid", payload |-> NoPayload]
             ELSE LET text == base64urlDecode(encoded)
                  IN  IF text.type = "invalid"
                      THEN [thrown |-> "Token payload invalid", payload |-> NoPayload]
                      ELSE IF text.type = "null"
                      THEN [thrown |-> ReadOfNull, payload |-> NoPayload]
                      ELSE IF text.iat.type # "number" \/ text.items.type # "array"
                      THEN [thrown |-> "Token payload malformed", payload |-> NoPayload]
                      ELSE LET payload == JSONparse(text)
                               age == t - payload.iat
                           IN  IF age > maxAgeMs \/ age < 0
                               THEN [thrown |-> "Token expired or invalid timestamp",
                                     payload |-> NoPayload]
                               ELSE [thrown |-> "", payload |-> payload]

\* items.map(item => ({ sku: item.sku, quantity: item.quantity }))
skuQuantity(items) ==
    [i \in 1..Len(items) |-> [sku |-> items[i].sku, quantity |-> items[i].quantity]]

\* ------------------------------------------------------- CartService
\* Faulty variant of the replay loop: stops after the first token item.
replayItems_FirstOnly(cart, items, itemId, t) ==
    IF items = <<>>
    THEN [cart |-> cart, nextItemId |-> itemId]
    ELSE [cart |-> mergeItem(cart, Head(items).sku, Head(items).quantity, itemId, t),
          nextItemId |-> itemId + 1]

\* rehydrateCart's replay loop: mergeItem per token item, in order.  Gives
\* the cart and the next unused item id.
RECURSIVE replayItems(_, _, _, _)
replayItems(cart, items, itemId, t) ==
    IF items = <<>>
    THEN [cart |-> cart, nextItemId |-> itemId]
    ELSE LET item == Head(items)
             isNew == findIndex(cart.items, item.sku) = 0
         IN  replayItems(mergeItem(cart, item.sku, item.quantity, itemId, t),
                         Tail(items),
                         IF isNew THEN itemId + 1 ELSE itemId,
                         t)

\* The record a mutating method passes to client.update.
updatedCart(c, t, itemId) ==
    CASE c.op = "addItem" -> mergeItem(c.cart[1], c.sku, c.quantity, itemId, t)
      [] c.op = "removeItem" -> removeItem(c.cart[1], c.itemId, t)
      [] c.op = "updateCustomerInfo" -> updateCustomer(c.cart[1], c.customer[1], t)

\* Faulty variant of tokenItems: addItem hands over cart.items as they
\* are, the way createCart does.
tokenItems_Unprojected(c) == c.cart[1].items

\* The items a method hands to createRehydrationToken.
tokenItems(c) ==
    IF c.op = "createCart" THEN c.cart[1].items ELSE skuQuantity(c.cart[1].items)

\* ------------------------------------------------------- validation
\* A number of a request body: num / den, whole when den divides num.
JsonRational(num, den) == [type |-> "number", num |-> num, den |-> den]

NumberIsInteger(v) == v.num % v.den = 0

\* sku.trim()
trim(str) == IF str = "  " THEN "" ELSE str

\* !sku || sku.trim().length === 0
validateSku(sku) ==
    IF sku = "" \/ trim(sku) = "" THEN "SKU must be non-empty" ELSE ""

\* !Number.isInteger(quantity) || quantity < 1
validateQuantity(quantity) ==
    IF ~NumberIsInteger(quantity) \/ quantity.num < quantity.den
    THEN "Quantity must be an integer >= 1"
    ELSE ""

\* Gives what it throws, or the sku and the quantity of the body.
validateAddItemRequest(body) ==
    LET refuse(msg) == [thrown |-> msg, sku |-> "", quantity |-> 0]
    IN  IF body.type # "object"
        THEN refuse("Request body must be an object")
        ELSE IF body.sku.type # "string"
        THEN refuse("sku must be a string")
        ELSE IF body.quantity.type # "number"
        THEN refuse("quantity must be a number")
        ELSE IF validateSku(body.sku.str) # ""
        THEN refuse(validateSku(body.sku.str))
        ELSE IF validateQuantity(body.quantity) # ""
        THEN refuse(validateQuantity(body.quantity))
        ELSE [thrown |-> "", sku |-> body.sku.str,
              quantity |-> body.quantity.num \div body.quantity.den]

\* Bodies of POST /cart/:id/items: text that is no JSON, null, and objects
\* whose sku and quantity are of any type, missing, or out of range.
BodySkus ==
    {JsonString(sku) : sku \in Skus \cup {"", "  "}}
        \cup {JsonNumber(1), [type |-> "undefined"]}

BodyQuantities ==
    {JsonRational(n, 1) : n \in {-1, 0, 1, HugeQuantity}}
        \cup {JsonRational(3, 2), JsonString("1"), [type |-> "undefined"]}

AddItemBodies ==
    {[type |-> "object", sku |-> sku, quantity |-> q] : sku \in BodySkus, q \in BodyQuantities}
        \cup {[type |-> "null"], [type |-> "invalid"]}

\* Of these, the bodies for one sku with at most one field that is
\* refused, and without the quantity that overflows.
HttpItemBodies ==
    {[type |-> "object", sku |-> sku, quantity |-> JsonRational(1, 1)] :
        sku \in BodySkus \ {JsonString("SKU-001")}}
        \cup {[type |-> "object", sku |-> JsonString("PLAN-BASIC"), quantity |-> q] :
                 q \in BodyQuantities \ {JsonRational(HugeQuantity, 1)}}
        \cup {[type |-> "null"], [type |-> "invalid"]}

\* /^[^\s@]+@[^\s@]+\.[^\s@]+$/.test(email), on the addresses of the model.
emailRegexTest(email) == email = "test@example.com"

validateEmail(email) == IF ~emailRegexTest(email) THEN "Invalid email format" ELSE ""

\* Gives what it throws, or the fields of the body that are there.
validateCustomerRequest(body) ==
    LET refuse(msg) == [thrown |-> msg, customer |-> [k \in {} |-> ""]]
        given == {k \in {"email", "firstName", "lastName"} : body[k].type # "undefined"}
    IN  IF body.type # "object"
        THEN refuse("Request body must be an object")
        ELSE IF "email" \in given /\ body.email.type # "string"
        THEN refuse("email must be a string")
        ELSE IF "email" \in given /\ validateEmail(body.email.str) # ""
        THEN refuse(validateEmail(body.email.str))
        ELSE IF "firstName" \in given /\ body.firstName.type # "string"
        THEN refuse("firstName must be a string")
        ELSE IF "lastName" \in given /\ body.lastName.type # "string"
        THEN refuse("lastName must be a string")
        ELSE [thrown |-> "", customer |-> [k \in given |-> body[k].str]]

\* A token in a request body is a JSON string: `segments` is what
\* split('.') makes of it, `blank` whether trim() leaves nothing of it.
JsonToken(token) == [type |-> "string", blank |-> FALSE, segments |-> token]
BlankString == [type |-> "string", blank |-> TRUE, segments |-> <<>>]

\* Gives what it throws, or the token of the body.
validateRehydrationRequest(body) ==
    LET refuse(msg) == [thrown |-> msg, token |-> <<>>]
    IN  IF body.type # "object"
        THEN refuse("Request body must be an object")
        ELSE IF body.token.type # "string" \/ body.token.blank
        THEN refuse("token must be a non-empty string")
        ELSE [thrown |-> "", token |-> body.token.segments]

\* Bodies of PATCH /cart/:id/customer: text that is no JSON, null, and
\* objects with an email of any kind or a name that is no string.
BodyEmails ==
    {JsonString("test@example.com"), JsonString("invalid-email"), JsonNumber(1),
     [type |-> "undefined"]}

BodyNames == {JsonNumber(1), [type |-> "undefined"]}

CustomerBodies ==
    {[type |-> "object", email |-> e, firstName |-> [type |-> "undefined"],
      lastName |-> [type |-> "undefined"]] : e \in BodyEmails}
        \cup {[type |-> "object", email |-> JsonString("test@example.com"),
               firstName |-> f, lastName |-> l] : f \in BodyNames, l \in BodyNames}
        \cup {[type |-> "null"], [type |-> "invalid"]}

\* Tokens for the bodies of POST /cart/rehydrate: payloads of any age
\* signed with the secret in use, payloads signed with another secret,
\* signed text that is no payload, and tokens of one and of three segments.
PresentedItems == {<<[sku |-> "PLAN-BASIC", quantity |-> 1]>>}

PresentedTexts ==
    {JSONstringify([iat |-> t, items |-> items]) :
        t \in 0..(MaxTime + 1), items \in PresentedItems}
        \cup {[type |-> "object", iat |-> JsonString("2026-01-01"),
               items |-> [type |-> "array", elems |-> <<>>]],
              [type |-> "object", iat |-> JsonNumber(0), items |-> [type |-> "undefined"]],
              [type |-> "invalid"], [type |-> "null"]}

PresentedTokens ==
    {signText(text, REHYDRATION_SECRET) : text \in PresentedTexts}
        \cup {signText(JSONstringify([iat |-> t, items |-> <<>>]), OTHER_SECRET) :
                 t \in 0..MaxTime}
        \cup {<<base64url([type |-> "null"])>>,
              <<base64url([type |-> "null"]), createHmac(REHYDRATION_SECRET,
                                                         base64url([type |-> "null"])),
                createHmac(REHYDRATION_SECRET, base64url([type |-> "null"]))>>}

RehydrateBodies ==
    {[type |-> "object", token |-> JsonToken(token)] : token \in PresentedTokens}
        \cup {[type |-> "object", token |-> t] :
                 t \in {BlankString, JsonNumber(1), [type |-> "undefined"]}}
        \cup {[type |-> "null"], [type |-> "invalid"]}

\* ------------------------------------------------------------- errors
\* The subclasses of CartError with the statusCode each one sets.
CartErrors == {"NotFoundError", "ValidationError", "TokenError"}

statusCode(error) ==
    CASE error = "NotFoundError" -> 404
      [] error = "ValidationError" -> 400
      [] error = "TokenError" -> 401

\* error instanceof CartError ? error.statusCode : 500
jsonError(error) == IF error \in CartErrors THEN statusCode(error) ELSE 500

\* c.json(result, 201) of POST /cart and POST /cart/rehydrate; c.json(...)
\* of the other routes.
jsonOk(op) == IF op \in {"createCart", "rehydrateCart"} THEN 201 ELSE 200

\* ------------------------------------------------------------- state
Idle == [op |-> "idle", pc |-> "idle", id |-> 0, sku |-> "", quantity |-> 0,
         itemId |-> 0, customer |-> <<>>, cart |-> <<>>, token |-> <<>>]

NoEv == [method |-> "none", id |-> 0, arg |-> <<>>, ret |-> <<>>, thrown |-> "",
         evicted |-> FALSE]

NoResp == [op |-> "none", proc |-> 0, id |-> 0, status |-> "", cart |-> <<>>, token |-> <<>>,
           http |-> 0]

\* Callers are interchangeable: a new call is taken by the first idle one.
CanStart(p) ==
    /\ call[p].pc = "idle"
    /\ \A q \in Procs : q < p => call[q].pc # "idle"

\* What a client method did: its argument record (create, update), what it
\* returned or threw, and whether it removed the entry it was called on.
Ev(method, id, arg, r) ==
    [method |-> method, id |-> id, arg |-> arg, ret |-> r.ret, thrown |-> r.thrown,
     evicted |-> MapHas(carts, id) /\ ~MapHas(r.carts, id)]

\* A response, with the HTTP status the route of `op` answers it with.
Resp(op, p, id, status, cart, token) ==
    [op |-> op, proc |-> p, id |-> id, status |-> status, cart |-> cart, token |-> token,
     http |-> IF status = "ok" THEN jsonOk(op) ELSE jsonError(status)]

\* What a request threw before any store method was called.
Thrown(method, thrown) == [NoEv EXCEPT !.method = method, !.thrown = thrown]

Init ==
    /\ carts = <<>>
    /\ sweepInterval = <<>>
    /\ sweepScanLimit = SweepScanLimit
    /\ timers = {}
    /\ unswept = <<>>
    /\ now = 0
    /\ nextId = 1
    /\ nextItemId = 1
    /\ call = [p \in Procs |-> Idle]
    /\ held = <<>>
    /\ ev = NoEv
    /\ resp = NoResp

\* ------------------------------------------------------------- clock
Tick ==
    /\ now < MaxTime
    /\ now' = now + 1
    /\ ev' = NoEv
    /\ resp' = NoResp
    /\ UNCHANGED <<carts, sweepInterval, sweepScanLimit, timers, unswept, nextId,
                   nextItemId, call, held>>

\* The clock beyond MaxTime: a millisecond passes and the model counts time
\* from one millisecond later, so every timestamp held is one less.  A
\* timestamp already at 0 stays there: it is in the past of everything the
\* code compares it with, before and after.
Earlier(m) ==
    [i \in 1..Len(m) |->
        [m[i] EXCEPT !.createdAt = IF @ = 0 THEN 0 ELSE @ - 1,
                     !.updatedAt = IF @ = 0 THEN 0 ELSE @ - 1,
                     !.expiresAt = IF @ = 0 THEN 0 ELSE @ - 1]]

TickOn ==
    /\ now = MaxTime
    /\ carts' = Earlier(carts)
    /\ unswept' = Earlier(unswept)
    /\ ev' = NoEv
    /\ resp' = NoResp
    /\ UNCHANGED <<sweepInterval, sweepScanLimit, timers, now, nextId, nextItemId,
                   call, held>>

\* ------------------------------------------- direct calls of the client
StoreCreate ==
    /\ nextId <= MaxCarts
    /\ LET cart == createCart(nextId, now)
           r == clientCreate(carts, cart)
       IN  /\ carts' = r.carts
           /\ unswept' = clientCreate(unswept, cart).carts
           /\ ev' = Ev("create", nextId, <<cart>>, r)
    /\ nextId' = nextId + 1
    /\ resp' = NoResp
    /\ UNCHANGED <<sweepInterval, sweepScanLimit, timers, now, nextItemId, call, held>>

StoreGet(id) ==
    /\ LET r == clientGet(carts, id, now)
       IN  /\ carts' = r.carts
           /\ unswept' = clientGet(unswept, id, now).carts
           /\ ev' = Ev("get", id, <<>>, r)
    /\ resp' = NoResp
    /\ UNCHANGED <<sweepInterval, sweepScanLimit, timers, now, nextId, nextItemId,
                   call, held>>

\* update() with a record the caller built at time t0: an empty cart, or
\* one line merged into it.
StoreUpdate(id, t0, sku) ==
    /\ sku # "" => nextItemId <= MaxItemIds
    /\ LET base == createCart(id, t0)
           cart == IF sku = "" THEN base ELSE mergeItem(base, sku, 1, nextItemId, t0)
           r == clientUpdate(carts, cart, now)
       IN  /\ carts' = r.carts
           /\ unswept' = clientUpdate(unswept, cart, now).carts
           /\ ev' = Ev("update", id, <<cart>>, r)
    /\ nextItemId' = IF sku = "" THEN nextItemId ELSE nextItemId + 1
    /\ resp' = NoResp
    /\ UNCHANGED <<sweepInterval, sweepScanLimit, timers, now, nextId, call, held>>

StoreDelete(id) ==
    /\ LET r == clientDelete(carts, id)
       IN  /\ carts' = r.carts
           /\ unswept' = clientDelete(unswept, id).carts
           /\ ev' = Ev("delete", id, <<>>, r)
    /\ resp' = NoResp
    /\ UNCHANGED <<sweepInterval, sweepScanLimit, timers, now, nextId, nextItemId,
                   call, held>>

\* ------------------------------------------------------------ sweeper
\* setInterval gives a timer that is not among those set.
NewTimer == CHOOSE id \in TimerIds \ timers : \A other \in TimerIds \ timers : id <= other

\* Faulty variant of StartSweeper: a timer is set whether or not one is.
StartSweeper_NoGuard ==
    /\ TimerIds \ timers # {}
    /\ sweepInterval' = <<NewTimer>>
    /\ timers' = timers \cup {NewTimer}
    /\ ev' = [NoEv EXCEPT !.method = "startSweeper"]
    /\ resp' = NoResp
    /\ UNCHANGED <<carts, sweepScanLimit, unswept, now, nextId, nextItemId, call, held>>

StartSweeper ==
    /\ IF sweepInterval # <<>>
       THEN UNCHANGED <<sweepInterval, timers>>
       ELSE /\ TimerIds \ timers # {}
            /\ sweepInterval' = <<NewTimer>>
            /\ timers' = timers \cup {NewTimer}
    /\ ev' = [NoEv EXCEPT !.method = "startSweeper"]
    /\ resp' = NoResp
    /\ UNCHANGED <<carts, sweepScanLimit, unswept, now, nextId, nextItemId, call, held>>

StopSweeper ==
    /\ IF sweepInterval # <<>>
       THEN /\ timers' = timers \ {sweepInterval[1]}
            /\ sweepInterval' = <<>>
       ELSE UNCHANGED <<sweepInterval, timers>>
    /\ ev' = [NoEv EXCEPT !.method = "stopSweeper"]
    /\ resp' = NoResp
    /\ UNCHANGED <<carts, sweepScanLimit, unswept, now, nextId, nextItemId, call, held>>

\* An interval timer fires: one run of sweep().
Sweep ==
    /\ timers # {}
    /\ \E adv \in [1..(2 * Len(carts)) -> 0..1] :
          LET r == sweep(carts, now, adv)
          IN  /\ r.clock <= MaxTime
              /\ carts' = r.carts
              /\ now' = r.clock
              /\ ev' = [NoEv EXCEPT !.method = "sweep", !.id = r.scanned]
    /\ resp' = NoResp
    /\ UNCHANGED <<sweepInterval, sweepScanLimit, timers, unswept, nextId,
                   nextItemId, call, held>>

\* ------------------------------------------------- service: first steps
CreateCartCall(p) ==
    /\ CanStart(p)
    /\ nextId <= MaxCreated
    /\ LET cart == createCart(nextId, now)
           r == clientCreate(carts, cart)
       IN  /\ carts' = r.carts
           /\ ev' = Ev("create", nextId, <<cart>>, r)
           /\ call' = [call EXCEPT ![p] = [Idle EXCEPT !.op = "createCart", !.pc = "token",
                                                       !.id = nextId, !.cart = <<cart>>]]
    /\ nextId' = nextId + 1
    /\ resp' = NoResp
    /\ UNCHANGED <<sweepInterval, sweepScanLimit, timers, unswept, now, nextItemId,
                   held>>

GetCartCall(p, id) ==
    /\ CanStart(p)
    /\ LET r == clientGet(carts, id, now)
       IN  /\ carts' = r.carts
           /\ ev' = Ev("get", id, <<>>, r)
           /\ resp' = IF r.ret = <<>>
                      THEN Resp("getCart", p, id, "NotFoundError", <<>>, <<>>)
                      ELSE Resp("getCart", p, id, "ok", r.ret, <<>>)
    /\ UNCHANGED <<sweepInterval, sweepScanLimit, timers, unswept, now, nextId,
                   nextItemId, call, held>>

\* addItem, removeItem and updateCustomerInfo all begin with getCart(id).
MutationCall(p, c) ==
    /\ CanStart(p)
    /\ LET r == clientGet(carts, c.id, now)
       IN  /\ carts' = r.carts
           /\ ev' = Ev("get", c.id, <<>>, r)
           /\ IF r.ret = <<>>
              THEN /\ resp' = Resp(c.op, p, c.id, "NotFoundError", <<>>, <<>>)
                   /\ call' = call
              ELSE /\ resp' = NoResp
                   /\ call' = [call EXCEPT ![p] = [c EXCEPT !.pc = "update", !.cart = r.ret]]
    /\ UNCHANGED <<sweepInterval, sweepScanLimit, timers, unswept, now, nextId,
                   nextItemId, held>>

AddItemCall(p, id, sku, quantity) ==
    MutationCall(p, [Idle EXCEPT !.op = "addItem", !.id = id, !.sku = sku,
                                 !.quantity = quantity])

RemoveItemCall(p, id, itemId) ==
    MutationCall(p, [Idle EXCEPT !.op = "removeItem", !.id = id, !.itemId = itemId])

UpdateCustomerInfoCall(p, id, customer) ==
    MutationCall(p, [Idle EXCEPT !.op = "updateCustomerInfo", !.id = id,
                                 !.customer = <<customer>>])

rehydrateCart(p, token) ==
    /\ CanStart(p)
    /\ LET v == verifyToken(token, REHYDRATION_SECRET, MaxAgeMs, now)
       IN  IF v.thrown # ""
           THEN /\ resp' = Resp("rehydrateCart", p, 0, errorName(v.thrown), <<>>, <<>>)
                /\ ev' = Thrown("rehydrateCart", v.thrown)
                /\ UNCHANGED <<carts, nextId, nextItemId, call>>
           ELSE LET built == replayItems(createCart(nextId, now), v.payload.items,
                                         nextItemId, now)
                    r == clientCreate(carts, built.cart)
                IN  /\ nextId <= MaxCarts
                    /\ carts' = r.carts
                    /\ ev' = Ev("create", nextId, <<built.cart>>, r)
                    /\ nextId' = nextId + 1
                    /\ nextItemId' = built.nextItemId
                    /\ call' = [call EXCEPT ![p] =
                                  [Idle EXCEPT !.op = "rehydrateCart", !.pc = "token",
                                               !.id = nextId, !.cart = <<built.cart>>,
                                               !.token = <<token>>]]
                    /\ resp' = NoResp
    /\ UNCHANGED <<sweepInterval, sweepScanLimit, timers, unswept, now, held>>

\* Faulty variant: a token is accepted once; presented while a cart built
\* from a token is stored, it is refused.
RehydrateCartCall_OnceOnly(p) ==
    /\ held # <<>>
    /\ IF carts = <<>>
       THEN rehydrateCart(p, held[1].token)
       ELSE /\ CanStart(p)
            /\ resp' = Resp("rehydrateCart", p, 0, "TokenError", <<>>, <<>>)
            /\ ev' = Thrown("rehydrateCart", "Token expired or invalid timestamp")
            /\ UNCHANGED <<carts, sweepInterval, sweepScanLimit, timers, unswept, now,
                           nextId, nextItemId, call, held>>

\* The client presents the token it holds.
RehydrateCartCall(p) ==
    /\ held # <<>>
    /\ rehydrateCart(p, held[1].token)

\* ------------------------------------------ service: after each await
\* After `await this.getCart(id)`: transform the cart read, client.update.
UpdateStep(p) ==
    /\ call[p].pc = "update"
    /\ LET c == call[p]
           isNew == c.op = "addItem" /\ findIndex(c.cart[1].items, c.sku) = 0
           updated == updatedCart(c, now, nextItemId)
           r == clientUpdate(carts, updated, now)
       IN  /\ isNew => nextItemId <= MaxItemIds
           /\ \A i \in 1..Len(updated.items) :
                 \/ updated.items[i].quantity <= MaxQty
                 \/ updated.items[i].quantity \in {HugeQuantity, Infinity}
           /\ nextItemId' = IF isNew THEN nextItemId + 1 ELSE nextItemId
           /\ carts' = r.carts
           /\ ev' = Ev("update", c.id, <<updated>>, r)
           /\ IF r.thrown # ""
              THEN /\ resp' = Resp(c.op, p, c.id, "NotFoundError", <<>>, <<>>)
                   /\ call' = [call EXCEPT ![p] = Idle]
              ELSE IF c.op = "addItem"
              THEN /\ resp' = NoResp
                   /\ call' = [call EXCEPT ![p] = [c EXCEPT !.pc = "token",
                                                            !.cart = <<updated>>]]
              ELSE /\ resp' = Resp(c.op, p, c.id, "ok", <<updated>>, <<>>)
                   /\ call' = [call EXCEPT ![p] = Idle]
    /\ UNCHANGED <<sweepInterval, sweepScanLimit, timers, unswept, now, nextId, held>>

\* After `await this.client.create/update`: mint the token, return.
TokenStep(p) ==
    /\ call[p].pc = "token"
    /\ LET c == call[p]
           token == createRehydrationToken(tokenItems(c), REHYDRATION_SECRET, now)
       IN  resp' = Resp(c.op, p, c.id, "ok", c.cart, <<token>>)
    /\ call' = [call EXCEPT ![p] = Idle]
    /\ ev' = NoEv
    /\ UNCHANGED <<carts, sweepInterval, sweepScanLimit, timers, unswept, now,
                   nextId, nextItemId, held>>

\* ------------------------------------------------------------- routes
\* POST /cart/:id/items: c.req.json(), validateAddItemRequest, then
\* service.addItem; what is thrown before the service is called is
\* answered at once.
\* A handler's catch block before the service was called: jsonError.
Refused(p, op, id, method, error, thrown) ==
    /\ CanStart(p)
    /\ resp' = Resp(op, p, id, error, <<>>, <<>>)
    /\ ev' = Thrown(method, thrown)
    /\ UNCHANGED <<carts, sweepInterval, sweepScanLimit, timers, unswept, now,
                   nextId, nextItemId, call, held>>

\* Faulty variant of POST /cart/:id/items: the cart is read before the
\* body is validated.
PostItems_ReadsFirst(p, id, body) ==
    IF body.type = "invalid"
    THEN Refused(p, "addItem", id, "c.req.json", "SyntaxError", "SyntaxError")
    ELSE LET v == validateAddItemRequest(body)
         IN  IF v.thrown # ""
             THEN /\ CanStart(p)
                  /\ carts' = clientGet(carts, id, now).carts
                  /\ resp' = Resp("addItem", p, id, "ValidationError", <<>>, <<>>)
                  /\ ev' = Thrown("validateAddItemRequest", v.thrown)
                  /\ UNCHANGED <<sweepInterval, sweepScanLimit, timers, unswept, now,
                                 nextId, nextItemId, call, held>>
             ELSE AddItemCall(p, id, v.sku, v.quantity)

PostItems(p, id, body) ==
    IF body.type = "invalid"
    THEN Refused(p, "addItem", id, "c.req.json", "SyntaxError", "SyntaxError")
    ELSE LET v == validateAddItemRequest(body)
         IN  IF v.thrown # ""
             THEN Refused(p, "addItem", id, "validateAddItemRequest", "ValidationError",
                          v.thrown)
             ELSE AddItemCall(p, id, v.sku, v.quantity)

\* PATCH /cart/:id/customer
PatchCustomer(p, id, body) ==
    IF body.type = "invalid"
    THEN Refused(p, "updateCustomerInfo", id, "c.req.json", "SyntaxError", "SyntaxError")
    ELSE LET v == validateCustomerRequest(body)
         IN  IF v.thrown # ""
             THEN Refused(p, "updateCustomerInfo", id, "validateCustomerRequest",
                          "ValidationError", v.thrown)
             ELSE UpdateCustomerInfoCall(p, id, v.customer)

\* POST /cart/rehydrate
PostRehydrate(p, body) ==
    IF body.type = "invalid"
    THEN Refused(p, "rehydrateCart", 0, "c.req.json", "SyntaxError", "SyntaxError")
    ELSE LET v == validateRehydrationRequest(body)
         IN  IF v.thrown # ""
             THEN Refused(p, "rehydrateCart", 0, "validateRehydrationRequest",
                          "ValidationError", v.thrown)
             ELSE rehydrateCart(p, v.token)

\* ------------------------------------------------------------- client
\* The client keeps the token of the response it just received, with the
\* item list of the cart shown in that response.  The model follows one
\* token from its issue on.
KeepToken ==
    /\ held = <<>>
    /\ resp.token # <<>>
    /\ held' = <<[token |-> resp.token[1], items |-> resp.cart[1].items]>>
    /\ ev' = NoEv
    /\ resp' = NoResp
    /\ UNCHANGED <<carts, sweepInterval, sweepScanLimit, timers, unswept, now,
                   nextId, nextItemId, call>>

\* ---------------------------------------------- the codec on its own
\* The token under test (one per run), with how it came about: the items
\* it was made from, the secret that signed it and the time it was made.
Held(token, items, origin, secret) ==
    <<[token |-> token, items |-> items, origin |-> origin, secret |-> secret,
       iat |-> now]>>

CodecSign(items) ==
    /\ held = <<>>
    /\ held' = Held(createRehydrationToken(items, REHYDRATION_SECRET, now), items,
                    "createRehydrationToken", REHYDRATION_SECRET)
    /\ ev' = NoEv
    /\ resp' = NoResp
    /\ UNCHANGED <<carts, sweepInterval, sweepScanLimit, timers, unswept, now,
                   nextId, nextItemId, call>>

\* A holder of `secret` signs a payload text of its own making.
CodecSignText(text, secret) ==
    /\ held = <<>>
    /\ held' = Held(signText(text, secret), <<>>, "signText", secret)
    /\ ev' = NoEv
    /\ resp' = NoResp
    /\ UNCHANGED <<carts, sweepInterval, sweepScanLimit, timers, unswept, now,
                   nextId, nextItemId, call>>

\* Other payload texts to put in the place of `text`.
OtherTexts(text) ==
    ({[type |-> "invalid"]}
        \cup (IF text.type = "object"
              THEN {[text EXCEPT !.iat = JsonNumber(now)],
                    [text EXCEPT !.items =
                        [type |-> "array",
                         elems |-> <<[sku |-> JsonString("PLAN-BASIC"),
                                      quantity |-> JsonNumber(MaxQty)]>>]]}
              ELSE {})) \ {text}

\* Other signatures to put in the place of that of `token`.
OtherSignatures(token) ==
    {createHmac(s, d) : s \in Secrets, d \in {token[1], base64url([type |-> "invalid"])}}
        \ {token[2]}

\* One segment of a token just made is changed, or its separator is
\* removed or repeated.
CodecTamper ==
    /\ held # <<>>
    /\ held[1].origin \in {"createRehydrationToken", "signText"}
    /\ LET token == held[1].token
       IN  \E changed \in
                 {<<base64url(t), token[2]>> : t \in OtherTexts(base64urlDecode(token[1]))}
                    \cup {<<token[1], sig>> : sig \in OtherSignatures(token)}
                    \cup {<<token[1]>>, <<token[1], token[2], token[2]>>} :
              held' = <<[held[1] EXCEPT !.token = changed, !.origin = "tampered"]>>
    /\ ev' = NoEv
    /\ resp' = NoResp
    /\ UNCHANGED <<carts, sweepInterval, sweepScanLimit, timers, unswept, now,
                   nextId, nextItemId, call>>

CodecVerify(secret, maxAgeMs) ==
    /\ held # <<>>
    /\ LET v == verifyToken(held[1].token, secret, maxAgeMs, now)
       IN  ev' = [NoEv EXCEPT !.method = "verifyToken", !.id = maxAgeMs,
                              !.arg = <<secret>>,
                              !.ret = IF v.thrown = "" THEN <<v.payload>> ELSE <<>>,
                              !.thrown = v.thrown]
    /\ resp' = NoResp
    /\ UNCHANGED <<carts, sweepInterval, sweepScanLimit, timers, unswept, now,
                   nextId, nextItemId, call, held>>

\* ------------------------------------------------------ specifications
\* The client driven directly (as its own tests drive it), the clock and
\* the sweeper.
NextStore ==
    \/ Tick
    \/ StoreCreate
    \/ \E id \in CartIds : StoreGet(id)
    \/ \E id \in CartIds, t0 \in 0..now, sku \in Skus \cup {""} : StoreUpdate(id, t0, sku)
    \/ \E id \in CartIds : StoreDelete(id)
    \/ StartSweeper
    \/ StopSweeper
    \/ Sweep

SpecStore == Init /\ [][NextStore]_vars

\* index.ts starts the sweeper right after constructing the client.
InitService ==
    /\ carts = <<>>
    /\ sweepInterval = <<1>>
    /\ sweepScanLimit = SweepScanLimit
    /\ timers = {1}
    /\ unswept = <<>>
    /\ now = 0
    /\ nextId = 1
    /\ nextItemId = 1
    /\ call = [p \in Procs |-> Idle]
    /\ held = <<>>
    /\ ev = NoEv
    /\ resp = NoResp

\* One client that calls the service one method at a time on the cart it
\* created, with the clock and the sweeper running between the steps of
\* every method.
NextService ==
    \/ Tick
    \/ Sweep
    \/ CreateCartCall(1)
    \/ \E id \in CreatedIds : GetCartCall(1, id)
    \/ \E id \in CreatedIds, sku \in Skus, q \in Quantities : AddItemCall(1, id, sku, q)
    \/ \E id \in CreatedIds, itemId \in ItemIds : RemoveItemCall(1, id, itemId)
    \/ \E id \in CreatedIds, cu \in CustomerInputs : UpdateCustomerInfoCall(1, id, cu)
    \/ UpdateStep(1)
    \/ TokenStep(1)

SpecService == InitService /\ [][NextService]_vars

\* The life of a token: one client fills a cart, keeps the token of one
\* response and later presents it to rehydrateCart, while the clock and
\* the sweeper run.
NextRehydrate ==
    \/ Tick
    \/ Sweep
    \/ KeepToken
    \/ CreateCartCall(1)
    \/ \E id \in CreatedIds, sku \in Skus, q \in Quantities : AddItemCall(1, id, sku, q)
    \/ RehydrateCartCall(1)
    \/ UpdateStep(1)
    \/ TokenStep(1)

SpecRehydrate == InitService /\ [][NextRehydrate]_vars

\* One client's whole session: every service method, one at a time, on
\* the cart it created, a token kept and presented to rehydrateCart, and
\* the clock; expiry is met lazily, by the store calls of the methods.
NextSession ==
    \/ Tick
    \/ KeepToken
    \/ CreateCartCall(1)
    \/ \E id \in CreatedIds : GetCartCall(1, id)
    \/ \E id \in CreatedIds, sku \in Skus, q \in Quantities : AddItemCall(1, id, sku, q)
    \/ \E id \in CreatedIds, itemId \in ItemIds : RemoveItemCall(1, id, itemId)
    \/ \E id \in CreatedIds, cu \in CustomerInputs : UpdateCustomerInfoCall(1, id, cu)
    \/ RehydrateCartCall(1)
    \/ UpdateStep(1)
    \/ TokenStep(1)

SpecSession == InitService /\ [][NextSession]_vars

\* The codec called on its own (as its tests call it): tokens made by
\* createRehydrationToken or signed over any payload text, changed or
\* not, verified with either secret and any maxAgeMs as the clock moves.
NextCodec ==
    \/ Tick
    \/ \E items \in TokenItemLists : CodecSign(items)
    \/ \E text \in RawTexts, secret \in Secrets : CodecSignText(text, secret)
    \/ CodecTamper
    \/ \E secret \in Secrets, maxAgeMs \in MaxAges : CodecVerify(secret, maxAgeMs)

SpecCodec == Init /\ [][NextCodec]_vars

\* mergeItem called again and again on a cart that starts empty, which is
\* rehydrateCart's replay loop: a holder of the secret signs any list of
\* up to three (sku, quantity) pairs, the same sku more than once
\* included, and presents the token.
NextReplay ==
    \/ Tick
    \/ \E items \in ReplayLists : CodecSign(items)
    \/ RehydrateCartCall(1)
    \/ TokenStep(1)

SpecReplay == Init /\ [][NextReplay]_vars

\* The service behind its routes: POST /cart/:id/items with any body, and
\* the other methods called as their routes call them, one at a time, with
\* the clock running.
NextRoutes ==
    \/ Tick
    \/ CreateCartCall(1)
    \/ \E id \in CreatedIds, body \in AddItemBodies : PostItems(1, id, body)
    \/ \E id \in CreatedIds, itemId \in ItemIds : RemoveItemCall(1, id, itemId)
    \/ \E id \in CreatedIds, cu \in CustomerInputs : UpdateCustomerInfoCall(1, id, cu)
    \/ UpdateStep(1)
    \/ TokenStep(1)

SpecRoutes == InitService /\ [][NextRoutes]_vars

\* The HTTP boundary: every route with any body, one request at a time,
\* with the clock running.
NextHttp ==
    \/ Tick
    \/ CreateCartCall(1)
    \/ \E id \in CreatedIds : GetCartCall(1, id)
    \/ \E id \in CreatedIds, body \in HttpItemBodies : PostItems(1, id, body)
    \/ \E id \in CreatedIds, itemId \in ItemIds : RemoveItemCall(1, id, itemId)
    \/ \E id \in CreatedIds, body \in CustomerBodies : PatchCustomer(1, id, body)
    \/ \E body \in RehydrateBodies : PostRehydrate(1, body)
    \/ UpdateStep(1)
    \/ TokenStep(1)

SpecHttp == InitService /\ [][NextHttp]_vars

\* A client constructed with any scan limit, given up to MaxSwept carts
\* and its sweeper started, all at time 0; then the clock, reads that
\* refresh some carts and not others, and the sweep runs.
InitSweep ==
    /\ \E n \in 0..MaxSwept : carts = [i \in 1..n |-> createCart(i, 0)]
    /\ unswept = carts
    /\ sweepScanLimit \in ScanLimits
    /\ sweepInterval = <<1>>
    /\ timers = {1}
    /\ now = 0
    /\ nextId = Len(carts) + 1
    /\ nextItemId = 1
    /\ call = [p \in Procs |-> Idle]
    /\ held = <<>>
    /\ ev = NoEv
    /\ resp = NoResp

NextSweep ==
    \/ Tick
    \/ \E id \in SweptIds : StoreGet(id)
    \/ Sweep

SpecSweep == InitSweep /\ [][NextSweep]_vars

\* The same for the scan limit of the configuration, with the interval
\* firing again and again and time passing without end.
InitSweepFair == InitSweep /\ sweepScanLimit = SweepScanLimit

NextSweepFair ==
    \/ NextSweep
    \/ TickOn

SpecSweepFair ==
    /\ InitSweepFair
    /\ [][NextSweepFair]_vars
    /\ WF_vars(Sweep)
    /\ WF_vars(Tick)
    /\ WF_vars(TickOn)

\* Callers whose methods overlap: each runs up to its next await, then
\* another may run (Promise.all of several service calls).  The awaits
\* resolve in microtasks, so the overlap is within one reading of the clock.
NextRace ==
    \/ \E p \in Procs : CreateCartCall(p)
    \/ \E p \in Procs, id \in CreatedIds, sku \in Skus, q \in Quantities : AddItemCall(p, id, sku, q)
    \/ \E p \in Procs, id \in CreatedIds, itemId \in ItemIds : RemoveItemCall(p, id, itemId)
    \/ \E p \in Procs, id \in CreatedIds, cu \in CustomerInputs : UpdateCustomerInfoCall(p, id, cu)
    \/ \E p \in Procs : UpdateStep(p)
    \/ \E p \in Procs : TokenStep(p)

SpecRace == InitService /\ [][NextRace]_vars

\* ============================================================ properties
\* A cart's lines as a token carries them: sku and quantity, in order.
Lines(items) ==
    [i \in 1..Len(items) |-> [sku |-> items[i].sku, quantity |-> items[i].quantity]]

\* The text of a token's payload segment.
TokenText(token) == base64urlDecode(token[1])

\* The items list inside a token's payload segment.
TokenLines(token) == JSONparse(base64urlDecode(token[1])).items

\* An entry of the map before a step that the step left as it was.
Kept(id) == MapHas(carts', id) /\ MapGet(carts', id) = MapGet(carts, id)

\* The step removed the entry of `id` and nothing else.
RemovedOnly(id) ==
    /\ ~MapHas(carts', id)
    /\ Len(carts') = Len(carts) - 1
    /\ \A j \in MapKeys(carts) \ {id} : Kept(j)

\* C1: get(id) never returns a record when the clock is past the expiresAt
\* the stored entry had when get was called; it returns null.
C1_GetHidesExpired ==
    [][\A id \in CartIds :
          (/\ ev'.method = "get"
           /\ ev'.id = id
           /\ MapHas(carts, id)
           /\ now > MapGet(carts, id).expiresAt)
          => ev'.ret = <<>>]_vars

\* A get that met an expired entry and returned null.
C1_ExpiredGetSeen ==
    ev.method = "get" /\ ev.evicted /\ ev.ret = <<>>

\* C2: get never throws.  For an id with no entry it returns null and
\* leaves the map as it was; for an expired entry it returns null and
\* removes that entry and no other, so size drops by one; and an id once
\* absent stays absent, so later lookups of it give null.
C2_GetAbsentCases ==
    [][\A id \in CartIds :
          /\ (ev'.method = "get" /\ ev'.id = id) =>
                /\ ev'.thrown = ""
                /\ (~MapHas(carts, id)) => (ev'.ret = <<>> /\ carts' = carts)
                /\ (MapHas(carts, id) /\ now > MapGet(carts, id).expiresAt) =>
                      (ev'.ret = <<>> /\ RemovedOnly(id))
          /\ (id < nextId /\ ~MapHas(carts, id)) => ~MapHas(carts', id)]_vars

\* A get removed an expired entry and another entry is still stored.
C2_ExpiredEntryRemoved ==
    ev.method = "get" /\ ev.evicted /\ ev.thrown = "" /\ Len(carts) = 1

\* C3: a get that returns a record at time t leaves the stored entry with
\* expiresAt = t + ttl and returns that entry; a get no later than the
\* entry's expiresAt returns a record; and a sweep removes no entry whose
\* expiresAt has not passed when the sweep ends.  So reads less than ttl
\* apart keep finding the record.
C3_GetRefreshesTtl ==
    [][\A id \in CartIds :
          /\ (ev'.method = "get" /\ ev'.id = id /\ ev'.ret # <<>>) =>
                /\ MapHas(carts', id)
                /\ MapGet(carts', id).expiresAt = now + Ttl
                /\ ev'.ret[1] = MapGet(carts', id)
          /\ (/\ ev'.method = "get"
              /\ ev'.id = id
              /\ MapHas(carts, id)
              /\ now <= MapGet(carts, id).expiresAt) => ev'.ret # <<>>
          /\ (/\ ev'.method = "sweep"
              /\ MapHas(carts, id)
              /\ now' <= MapGet(carts, id).expiresAt) => Kept(id)]_vars

\* A get returned a record later than ttl after the record was created.
C3_ReadBeyondFirstTtl ==
    ev.method = "get" /\ ev.ret # <<>> /\ now > ev.ret[1].createdAt + Ttl

\* C4: when a mutating method's update succeeds, the cart stored is the
\* method's change applied to the cart that was stored just before, so
\* no change another call stored in between is lost.
C4_NoLostUpdate ==
    [][\A p \in Procs :
          (call[p].pc = "update" /\ call'[p].pc # "update" /\ ev'.thrown = "") =>
             LET stored == [call[p] EXCEPT !.cart = <<MapGet(carts, call[p].id)>>]
                 onStored == updatedCart(stored, now, nextItemId)
                 after == MapGet(carts', call[p].id)
             IN  /\ Lines(after.items) = Lines(onStored.items)
                 /\ after.customer = onStored.customer]_vars

C6_RehydrateReplaysToken ==
    /\ \A p \in Procs :
          (call[p].op = "rehydrateCart" /\ call[p].pc = "token") =>
             /\ TokenLines(held[1].token) = Lines(held[1].items)
             /\ Lines(call[p].cart[1].items) = Lines(held[1].items)
             /\ call[p].cart[1].totals = calculateTotals(held[1].items)
    /\ (resp.op = "rehydrateCart" /\ resp.status = "ok") =>
          /\ Lines(resp.cart[1].items) = Lines(held[1].items)
          /\ resp.cart[1].totals = calculateTotals(held[1].items)

\* rehydrateCart rebuilt a cart of two lines whose original is gone.
C6_RehydratedAfterLoss ==
    /\ call[1].op = "rehydrateCart"
    /\ call[1].pc = "token"
    /\ Len(call[1].cart[1].items) = 2
    /\ ~MapHas(carts, 1)

C8_UpdateStoresGiven ==
    [][\A id \in CartIds :
          /\ (/\ ev'.method = "update"
              /\ ev'.id = id
              /\ MapHas(carts, id)
              /\ now <= MapGet(carts, id).expiresAt) =>
                /\ ev'.thrown = ""
                /\ MapHas(carts', id)
                /\ MapGet(carts', id) =
                      [ev'.arg[1] EXCEPT !.updatedAt = now, !.expiresAt = now + Ttl]
                /\ ev'.ret = <<MapGet(carts', id)>>
                /\ Len(carts') = Len(carts)
                /\ \A j \in MapKeys(carts) \ {id} : Kept(j)
          /\ (/\ ev'.method = "get"
              /\ ev'.id = id
              /\ MapHas(carts, id)
              /\ now <= MapGet(carts, id).expiresAt) =>
                (ev'.ret # <<>> /\ ev'.ret[1].items = MapGet(carts, id).items)]_vars

\* An update stored a record with a line in it whose timestamps were old.
C8_StaleRecordStored ==
    /\ ev.method = "update"
    /\ ev.thrown = ""
    /\ ev.arg[1].items # <<>>
    /\ ev.arg[1].updatedAt < now
    /\ MapHas(carts, ev.id)
    /\ MapGet(carts, ev.id).items = ev.arg[1].items

\* C9: update(record) on an id with no entry throws NotFoundError and
\* leaves the map as it was; on an expired entry it throws NotFoundError
\* and removes that entry and no other.  The record is stored in neither
\* case.
C9_UpdateRefusesMissingAndExpired ==
    [][\A id \in CartIds :
          (ev'.method = "update" /\ ev'.id = id) =>
             /\ (~MapHas(carts, id)) =>
                   (ev'.thrown = "NotFoundError" /\ ev'.ret = <<>> /\ carts' = carts)
             /\ (MapHas(carts, id) /\ now > MapGet(carts, id).expiresAt) =>
                   (ev'.thrown = "NotFoundError" /\ ev'.ret = <<>> /\ RemovedOnly(id))]_vars

\* An update met an expired entry, though the record given was fresh.
C9_ExpiredUpdateSeen ==
    /\ ev.method = "update"
    /\ ev.thrown = "NotFoundError"
    /\ ev.evicted
    /\ now <= ev.arg[1].expiresAt

\* C10: a service method whose store call meets a cart that is present
\* with expiresAt passed (getCart, or the getCart or the update inside
\* addItem, removeItem, updateCustomerInfo) ends the method with
\* NotFoundError, removes the entry and nothing else, and delivers neither
\* a cart nor a token.
C10_ExpiredCartRefused ==
    [][\A id \in CreatedIds :
          (/\ ev'.method \in {"get", "update"}
           /\ ev'.id = id
           /\ MapHas(carts, id)
           /\ now > MapGet(carts, id).expiresAt) =>
             /\ resp'.status = "NotFoundError"
             /\ resp'.op \in {"getCart", "addItem", "removeItem", "updateCustomerInfo"}
             /\ resp'.id = id
             /\ resp'.cart = <<>>
             /\ resp'.token = <<>>
             /\ RemovedOnly(id)
             /\ \A p \in Procs : call'[p] = Idle]_vars

\* addItem read its cart in time, but the cart had expired when addItem
\* came to update it.
C10_ExpiredBetweenGetAndUpdate ==
    /\ ev.method = "update"
    /\ ev.evicted
    /\ resp.op = "addItem"
    /\ resp.status = "NotFoundError"

\* C11: delete(id) never throws and leaves no entry for id: it removes
\* the entry of id and no other when there is one, and leaves the map as
\* it was when there is none; so deleting the same id again changes
\* nothing more.
C11_DeleteIdempotent ==
    [][\A id \in CartIds :
          (ev'.method = "delete" /\ ev'.id = id) =>
             /\ ev'.thrown = ""
             /\ ~MapHas(carts', id)
             /\ MapHas(carts, id) => RemovedOnly(id)
             /\ (~MapHas(carts, id)) => carts' = carts
             /\ clientDelete(carts', id).carts = carts'
             /\ clientDelete(carts', id).thrown = ""]_vars

\* A delete of an id that was issued and had no entry any more, with
\* another entry stored.
C11_DeleteOfMissing ==
    /\ ev.method = "delete"
    /\ ~ev.evicted
    /\ ev.id < nextId
    /\ Len(carts) = 1

\* C12: the cart rehydrateCart creates from a valid token is stored
\* under an id no cart was given before, with createdAt = updatedAt = now
\* and expiresAt = now + ttl, with line ids no line was given before, each
\* different, and with no customer.
C12_RehydratedCartIsNew ==
    [][\A p \in Procs :
          (/\ call[p].pc = "idle"
           /\ call'[p].op = "rehydrateCart"
           /\ call'[p].pc = "token") =>
             LET c == call'[p].cart[1]
             IN  /\ c.id \notin 1..(nextId - 1)
                 /\ ~MapHas(carts, c.id)
                 /\ MapHas(carts', c.id)
                 /\ MapGet(carts', c.id) = c
                 /\ \A j \in MapKeys(carts) : Kept(j)
                 /\ c.createdAt = now
                 /\ c.updatedAt = now
                 /\ c.expiresAt = now + Ttl
                 /\ c.customer = <<>>
                 /\ \A i \in 1..Len(c.items) :
                       /\ c.items[i].itemId \notin 1..(nextItemId - 1)
                       /\ \A k \in 1..Len(c.items) :
                             c.items[k].itemId = c.items[i].itemId => k = i]_vars

\* rehydrateCart rebuilt, after the clock moved, a cart whose original is
\* still stored and has a customer.
C12_RehydratedBesideOriginal ==
    /\ call[1].op = "rehydrateCart"
    /\ call[1].pc = "token"
    /\ now >= 1
    /\ call[1].cart[1].items # <<>>
    /\ MapHas(carts, 1)
    /\ MapGet(carts, 1).customer # <<>>
    /\ MapGet(carts, 1).items # <<>>

\* C13: a token createRehydrationToken made from any items list, the
\* empty one too, verified with the same secret at an age from 0 to
\* maxAgeMs, is accepted, and the payload returned has the items it was
\* made from and the time it was made as iat.
C13_TokenRoundTrip ==
    [][(/\ ev'.method = "verifyToken"
        /\ held[1].origin = "createRehydrationToken"
        /\ ev'.arg = <<held[1].secret>>
        /\ now - held[1].iat >= 0
        /\ now - held[1].iat <= ev'.id)
       => /\ ev'.thrown = ""
          /\ ev'.ret # <<>>
          /\ ev'.ret[1].items = held[1].items
          /\ ev'.ret[1].iat = held[1].iat]_vars

\* A token of two lines was accepted at an age of exactly maxAgeMs > 0.
C13_TwoLinesAtFullAge ==
    /\ ev.method = "verifyToken"
    /\ ev.thrown = ""
    /\ held[1].origin = "createRehydrationToken"
    /\ Len(held[1].items) = 2
    /\ ev.id > 0
    /\ now - held[1].iat = ev.id

\* C14: for a token signed with the secret it is verified with, whose
\* payload has a numeric iat and an items array: at age = maxAgeMs it is
\* accepted; at age = maxAgeMs + 1 it is refused as expired; and with an
\* iat later than the clock it is refused, whatever maxAgeMs is.
C14_TokenAgeBoundary ==
    [][(/\ ev'.method = "verifyToken"
        /\ held[1].origin \in {"createRehydrationToken", "signText"}
        /\ ev'.arg = <<held[1].secret>>
        /\ TokenText(held[1].token).type = "object"
        /\ TokenText(held[1].token).iat.type = "number"
        /\ TokenText(held[1].token).items.type = "array")
       => LET age == now - TokenText(held[1].token).iat.num
              maxAgeMs == ev'.id
          IN  /\ age = maxAgeMs => (ev'.thrown = "" /\ ev'.ret # <<>>)
              /\ age = maxAgeMs + 1 =>
                    (ev'.thrown = "Token expired or invalid timestamp" /\ ev'.ret = <<>>)
              /\ age < 0 =>
                    (ev'.thrown = "Token expired or invalid timestamp" /\ ev'.ret = <<>>)]_vars

\* A token was refused at an age of exactly maxAgeMs + 1, maxAgeMs > 0.
C14_RefusedOnePastMaxAge ==
    /\ ev.method = "verifyToken"
    /\ ev.thrown = "Token expired or invalid timestamp"
    /\ held[1].origin = "createRehydrationToken"
    /\ ev.arg = <<held[1].secret>>
    /\ ev.id > 0
    /\ now - held[1].iat = ev.id + 1

\* C15: while a client holds a token whose age is beyond maxAgeMs, the
\* clock does not go back, the token is refused as expired after every
\* step at the time then and at any later time, and no rehydrateCart is
\* accepted: none begins to build a cart, and each is answered with a
\* token error and leaves the store as it was.
C15_ExpiredTokenStaysExpired ==
    [][(/\ held # <<>>
        /\ now - TokenText(held[1].token).iat.num > MaxAgeMs)
       => /\ now' >= now
          /\ held' = held
          /\ \A t \in now'..(MaxTime + MaxAgeMs) :
                verifyToken(held'[1].token, REHYDRATION_SECRET, MaxAgeMs, t).thrown
                   = "Token expired or invalid timestamp"
          /\ \A p \in Procs :
                call[p].pc = "idle" => call'[p].op # "rehydrateCart"
          /\ (resp'.op = "rehydrateCart" /\ call = call') =>
                /\ resp'.status = "TokenError"
                /\ resp'.cart = <<>>
                /\ resp'.token = <<>>
                /\ carts' = carts]_vars

\* rehydrateCart refused the held token for its age.
C15_ExpiredTokenRefused ==
    /\ held # <<>>
    /\ now - TokenText(held[1].token).iat.num > MaxAgeMs
    /\ resp.op = "rehydrateCart"
    /\ resp.status = "TokenError"

WellFormedPayload(text) ==
    /\ text.iat.type = "number"
    /\ text.items.type = "array"
    /\ \A i \in 1..Len(text.items.elems) :
          LET entry == text.items.elems[i]
          IN  /\ {"sku", "quantity"} \subseteq DOMAIN entry
              /\ entry.sku.type = "string"
              /\ entry.quantity.type = "number"

\* C17: a token signed with the secret it is verified with, whose payload
\* is an object that is not well formed (and whose iat, if numeric, is in
\* age), is refused as malformed and no payload is returned.
C17_MalformedPayloadRefused ==
    [][(/\ ev'.method = "verifyToken"
        /\ held[1].origin = "signText"
        /\ ev'.arg = <<held[1].secret>>
        /\ TokenText(held[1].token).type = "object"
        /\ ~WellFormedPayload(TokenText(held[1].token))
        /\ TokenText(held[1].token).iat.type = "number" =>
              /\ now - TokenText(held[1].token).iat.num >= 0
              /\ now - TokenText(held[1].token).iat.num <= ev'.id)
       => (ev'.thrown = "Token payload malformed" /\ ev'.ret = <<>>)]_vars

\* C18: the payload of a token the service delivers (with createCart,
\* addItem, rehydrateCart) has an iat, the time it is delivered at, and an
\* items array and nothing else, and each entry of items has the sku and
\* the quantity of the line of the cart delivered with it at the same
\* place, and nothing else.
C18_TokenPayloadIsMinimal ==
    resp.token # <<>> =>
       LET text == TokenText(resp.token[1])
           items == resp.cart[1].items
       IN  /\ resp.op \in {"createCart", "addItem", "rehydrateCart"}
           /\ DOMAIN text = {"type", "iat", "items"}
           /\ text.type = "object"
           /\ text.iat = [type |-> "number", num |-> now]
           /\ text.items.type = "array"
           /\ Len(text.items.elems) = Len(items)
           /\ \A i \in 1..Len(items) :
                 text.items.elems[i] =
                    [sku |-> [type |-> "string", str |-> items[i].sku],
                     quantity |-> [type |-> "number", num |-> items[i].quantity]]

\* addItem delivered a token, later than the cart was created, for a cart
\* that has a customer.
C18_TokenForCartWithCustomer ==
    /\ resp.op = "addItem"
    /\ resp.token # <<>>
    /\ resp.cart[1].customer # <<>>
    /\ resp.cart[1].items # <<>>
    /\ now > resp.cart[1].createdAt

\* No two lines of `items` have the same sku.
OneLinePerSku(items) ==
    \A i, j \in 1..Len(items) : items[i].sku = items[j].sku => i = j

\* C19: every cart stored, and every cart a method holds or delivers, has
\* at most one line per sku.
C19_OneLinePerSku ==
    /\ \A i \in 1..Len(carts) : OneLinePerSku(carts[i].items)
    /\ \A p \in Procs : call[p].cart # <<>> => OneLinePerSku(call[p].cart[1].items)
    /\ resp.cart # <<>> => OneLinePerSku(resp.cart[1].items)

\* addItem of quantity 1 for a sku the cart had: the line now has
\* quantity 2, beside a line of another sku.
C19_MergedIntoExistingLine ==
    /\ call[1].op = "addItem"
    /\ call[1].pc = "token"
    /\ call[1].quantity = 1
    /\ Len(call[1].cart[1].items) = 2
    /\ \E i \in 1..2 :
          /\ call[1].cart[1].items[i].sku = call[1].sku
          /\ call[1].cart[1].items[i].quantity = 2
    /\ MapHas(carts, call[1].id)
    /\ MapGet(carts, call[1].id).items = call[1].cart[1].items

\* What C20 says of mergeItem: `new` is `old` with q added to the line of
\* that sku, line id and position kept and the other lines as they were;
\* or, when no line has the sku, `old` followed by one line with the id
\* `fresh`, which no line of `old` has.
MergedOrAppended(old, new, sku, q, fresh) ==
    IF \E i \in 1..Len(old) : old[i].sku = sku
    THEN /\ Len(new) = Len(old)
         /\ \A i \in 1..Len(old) :
               IF old[i].sku = sku
               THEN new[i] = [itemId |-> old[i].itemId, sku |-> sku,
                              quantity |-> old[i].quantity + q]
               ELSE new[i] = old[i]
    ELSE /\ Len(new) = Len(old) + 1
         /\ \A i \in 1..Len(old) : new[i] = old[i]
         /\ new[Len(new)] = [itemId |-> fresh, sku |-> sku, quantity |-> q]
         /\ \A i \in 1..Len(old) : old[i].itemId # fresh

\* C20: the record addItem passes to update() is the record it fetched
\* with the line merged or appended as MergedOrAppended says.
C20_MergeItemMergesOrAppends ==
    [][\A p \in Procs :
          (/\ call[p].pc = "update"
           /\ call[p].op = "addItem"
           /\ call'[p] # call[p]
           /\ ev'.method = "update")
          => MergedOrAppended(call[p].cart[1].items, ev'.arg[1].items,
                              call[p].sku, call[p].quantity, nextItemId)]_vars

\* mergeItem has just added 1 to the first of two lines.
C20_MergedIntoFirstOfTwo ==
    /\ ev.method = "update"
    /\ call[1].op = "addItem"
    /\ call[1].pc = "token"
    /\ call[1].quantity = 1
    /\ Len(ev.arg[1].items) = 2
    /\ ev.arg[1].items[1].sku = call[1].sku
    /\ ev.arg[1].items[1].quantity = 2
    /\ ev.arg[1].items[2].sku # call[1].sku

\* The quantities added for `sku` by the calls, summed.
RECURSIVE SumFor(_, _)
SumFor(calls, sku) ==
    IF calls = <<>> THEN 0
    ELSE (IF Head(calls).sku = sku THEN Head(calls).quantity ELSE 0)
         + SumFor(Tail(calls), sku)

\* The skus of the calls in the order in which each was first added.
RECURSIVE FirstAdded(_, _)
FirstAdded(calls, seen) ==
    IF calls = <<>> THEN <<>>
    ELSE IF Head(calls).sku \in seen
    THEN FirstAdded(Tail(calls), seen)
    ELSE <<Head(calls).sku>> \o FirstAdded(Tail(calls), seen \cup {Head(calls).sku})

\* The quantity `items` has for `sku`: 0 when no line has it.
QuantityOf(items, sku) ==
    IF \E i \in 1..Len(items) : items[i].sku = sku
    THEN items[CHOOSE i \in 1..Len(items) : items[i].sku = sku].quantity
    ELSE 0

\* The calls in every order.
Reorderings(calls) ==
    {[i \in 1..Len(calls) |-> calls[f[i]]] : f \in Permutations(1..Len(calls))}

\* C21: the cart built by mergeItem calls on an empty cart has, for each
\* sku, the sum of the quantities added for it, the same in whatever order
\* the calls are made, and its lines are in the order in which each sku
\* was first added.
C21_MergeSumsAndKeepsFirstOrder ==
    (call[1].op = "rehydrateCart" /\ call[1].pc = "token") =>
        LET calls == held[1].items
            new == call[1].cart[1].items
        IN  /\ [i \in 1..Len(new) |-> new[i].sku] = FirstAdded(calls, {})
            /\ \A i \in 1..Len(new) : new[i].quantity = SumFor(calls, new[i].sku)
            /\ \A other \in Reorderings(calls) :
                  LET built == replayItems(createCart(call[1].id, now), other,
                                           nextItemId, now).cart.items
                  IN  \A sku \in Skus : QuantityOf(built, sku) = QuantityOf(new, sku)

\* One sku added, another, then the first again: two lines, the first
\* with the sum.
C21_SameSkuAddedAroundAnother ==
    /\ call[1].op = "rehydrateCart"
    /\ call[1].pc = "token"
    /\ Len(held[1].items) = 3
    /\ held[1].items[1].sku = held[1].items[3].sku
    /\ held[1].items[1].sku # held[1].items[2].sku
    /\ Len(call[1].cart[1].items) = 2
    /\ call[1].cart[1].items[1].sku = held[1].items[1].sku
    /\ call[1].cart[1].items[1].quantity
          = held[1].items[1].quantity + held[1].items[3].quantity

\* `items` with every line of id `itemId` left out, the rest in order.
RECURSIVE Without(_, _)
Without(items, itemId) ==
    IF items = <<>> THEN <<>>
    ELSE IF Head(items).itemId = itemId
    THEN Without(Tail(items), itemId)
    ELSE <<Head(items)>> \o Without(Tail(items), itemId)

\* price(sku) * quantity summed over the lines.
RECURSIVE PriceOfLines(_)
PriceOfLines(items) ==
    IF items = <<>> THEN 0
    ELSE PriceOfLines(Tail(items)) + getPrice(Head(items).sku) * Head(items).quantity

\* totals are the totals of `items`: the subtotal is the price of the
\* lines, the tax is subtotal * 13 / 100 rounded to the nearest integer
\* (a half goes up), the total is their sum.
TotalsOf(totals, items) ==
    /\ totals.subtotal = PriceOfLines(items)
    /\ 100 * totals.tax <= 13 * totals.subtotal + 50
    /\ 100 * totals.tax > 13 * totals.subtotal - 50
    /\ totals.total = totals.subtotal + totals.tax

\* C22: the record removeItem builds from the record fetched has the
\* fetched lines without the line of the given id, the others unchanged
\* and in order, and the totals of the lines that remain: all zero when
\* none remains.
C22_RemoveItemFiltersAndRetotals ==
    [][\A p \in Procs :
          (/\ call[p].pc = "update"
           /\ call[p].op = "removeItem"
           /\ call'[p] # call[p]
           /\ ev'.method = "update")
          => LET old == call[p].cart[1].items
                 new == ev'.arg[1]
             IN  /\ new.items = Without(old, call[p].itemId)
                 /\ \A i \in 1..Len(new.items) : new.items[i].itemId # call[p].itemId
                 /\ TotalsOf(new.totals, new.items)
                 /\ new.items = <<>> =>
                       new.totals = [subtotal |-> 0, tax |-> 0, total |-> 0]]_vars

\* removeItem answered with a cart whose only line is the second one
\* added, priced on its own.
C22_SecondLineLeft ==
    /\ resp.op = "removeItem"
    /\ resp.status = "ok"
    /\ ev.method = "update"
    /\ Len(resp.cart[1].items) = 1
    /\ resp.cart[1].items[1].itemId = 2
    /\ resp.cart[1].totals.subtotal
          = getPrice(resp.cart[1].items[1].sku) * resp.cart[1].items[1].quantity

\* C23: removeItem for an item id that no line of the fetched, live cart
\* has is answered with a not-found failure, not with a cart.
C23_RemoveOfMissingItemIsNotFound ==
    [][\A p \in Procs :
          (/\ call[p].pc = "update"
           /\ call[p].op = "removeItem"
           /\ \A i \in 1..Len(call[p].cart[1].items) :
                 call[p].cart[1].items[i].itemId # call[p].itemId
           /\ resp'.op = "removeItem"
           /\ resp'.proc = p)
          => (resp'.status = "NotFoundError" /\ resp'.cart = <<>>)]_vars

\* C24: the totals of every stored cart, and of every cart a method holds
\* or delivers, are the totals of its items.
C24_TotalsMatchItems ==
    /\ \A i \in 1..Len(carts) : TotalsOf(carts[i].totals, carts[i].items)
    /\ \A p \in Procs :
          call[p].cart # <<>> => TotalsOf(call[p].cart[1].totals, call[p].cart[1].items)
    /\ resp.cart # <<>> => TotalsOf(resp.cart[1].totals, resp.cart[1].items)

\* A stored cart with lines and a customer whose TTL was refreshed after
\* the customer was set: updateCustomerInfo and a later read kept the
\* totals of its lines.
C24_TotalsKeptThroughCustomerAndRefresh ==
    \E i \in 1..Len(carts) :
        /\ carts[i].items # <<>>
        /\ carts[i].customer # <<>>
        /\ carts[i].totals.tax > 0
        /\ ev.method = "get"
        /\ ev.id = carts[i].id
        /\ ev.ret # <<>>
        /\ carts[i].expiresAt = now + Ttl
        /\ now > 0

\* C25: every line of every stored cart has a quantity that is a whole
\* number, 1 or more.
C25_QuantitiesArePositiveIntegers ==
    \A i \in 1..Len(carts) :
        \A k \in 1..Len(carts[i].items) :
            /\ carts[i].items[k].quantity >= 1
            /\ carts[i].items[k].quantity # Infinity

\* C26: a sweep run examines at most sweepScanLimit entries: its count of
\* entries scanned is no more than the limit, and the entries beyond the
\* first sweepScanLimit of the map are all still there.
C26_SweepExaminesAtMostLimit ==
    [][ev'.method = "sweep" =>
          /\ ev'.id <= sweepScanLimit
          /\ \A i \in 1..Len(carts) :
                i > sweepScanLimit => MapHas(carts', carts[i].id)]_vars

\* C27: a sweep run removes only entries whose expiresAt has passed by the
\* time the run reads the clock for them, and leaves every other entry as
\* it was, in the order they were in.
C27_SweepRemovesOnlyExpired ==
    [][ev'.method = "sweep" =>
          LET StaysIn(c) == MapHas(carts', c.id)
          IN  /\ carts' = SelectSeq(carts, StaysIn)
              /\ \A i \in 1..Len(carts) :
                    ~StaysIn(carts[i]) => now' > carts[i].expiresAt]_vars

\* A sweep run has just removed an expired entry from between two live
\* ones, which it kept.
C27_ExpiredRemovedLiveKept ==
    /\ ev.method = "sweep"
    /\ MapKeys(carts) = {1, 3}
    /\ \A i \in 1..Len(carts) : carts[i].expiresAt >= now
    /\ MapHas(unswept, 2)
    /\ now > MapGet(unswept, 2).expiresAt

\* C28: every get and every update of the client returns what the same
\* call returns from a client given the same calls at the same times whose
\* sweeper never ran: the same record, or absent, or not found; and one
\* map has an id live exactly when the other has.
C28_SweeperIsAdvisory ==
    [][/\ ev'.method = "get" => ev'.ret = clientGet(unswept, ev'.id, now).ret
       /\ ev'.method = "update" =>
             LET other == clientUpdate(unswept, ev'.arg[1], now)
             IN  /\ ev'.ret = other.ret
                 /\ (ev'.thrown # "") = (other.thrown # "")
       /\ \A id \in CartIds :
             (MapHas(carts', id) /\ now' <= MapGet(carts', id).expiresAt)
                => (MapHas(unswept', id) /\ MapGet(unswept', id) = MapGet(carts', id))
       /\ \A id \in CartIds :
             (MapHas(unswept', id) /\ now' <= MapGet(unswept', id).expiresAt)
                => MapHas(carts', id)]_vars

\* A get returned a live cart from a map out of which the sweeper had
\* taken an expired entry that the never-swept map still holds.
C28_ReadAfterSweepRemoved ==
    /\ ev.method = "get"
    /\ ev.ret # <<>>
    /\ Len(unswept) > Len(carts)

\* C29: with the sweeper started and its interval firing again and again,
\* an entry that is in the map past its expiresAt is in time out of the
\* map (a read or an update of it takes it out too).
C29_AbandonedEventuallySwept ==
    \A id \in SweptIds :
        (MapHas(carts, id) /\ now > MapGet(carts, id).expiresAt) ~> ~MapHas(carts, id)

\* C30: however startSweeper and stopSweeper are called, at most one
\* interval timer is set, and one is set exactly while the client holds
\* it in sweepInterval; after stopSweeper none is set, so a sweep runs only
\* between a startSweeper and the next stopSweeper; and neither call
\* changes the map.
C30_OneSweeperStartStop ==
    [][/\ Cardinality(timers') <= 1
       /\ (sweepInterval' = <<>>) = (timers' = {})
       /\ ev'.method = "startSweeper" => (Cardinality(timers') = 1 /\ carts' = carts)
       /\ ev'.method = "stopSweeper" => (timers' = {} /\ carts' = carts)
       /\ ev'.method = "sweep" => sweepInterval # <<>>]_vars

\* stopSweeper has just been called on a client whose map holds an
\* expired entry: no timer is left to sweep it.
C30_StoppedWithExpiredEntry ==
    /\ ev.method = "stopSweeper"
    /\ sweepInterval = <<>>
    /\ timers = {}
    /\ \E i \in 1..Len(carts) : now > carts[i].expiresAt

\* C31: at the HTTP boundary a failure is answered by its kind: a request
\* whose store call met a missing or expired cart with 404, a body refused
\* by validation with 400, a token that verifyToken did not accept with
\* 401, and a body that is no JSON with 500.
C31_FailuresMappedByKind ==
    [][/\ (/\ ev'.method \in {"get", "update"}
           /\ \/ ~MapHas(carts, ev'.id)
              \/ now > MapGet(carts, ev'.id).expiresAt)
          => resp'.http = 404
       /\ ev'.method \in {"validateAddItemRequest", "validateCustomerRequest",
                          "validateRehydrationRequest"}
          => resp'.http = 400
       /\ ev'.method = "rehydrateCart" => resp'.http = 401
       /\ ev'.method = "c.req.json" => resp'.http = 500]_vars

\* The check of verifyToken at which what it threw is thrown: 1 the
\* segment count, 2 the signature, 3 the decode and parse, 4 the structure
\* (by a TokenError, or by the TypeError of reading a field of null), 5 the
\* age; 0 when nothing was thrown.
StageOf(thrown) ==
    CASE thrown = "" -> 0
      [] thrown = "Invalid token format" -> 1
      [] thrown = "Token signature invalid" -> 2
      [] thrown = "Token payload invalid" -> 3
      [] thrown \in {"Token payload malformed", ReadOfNull} -> 4
      [] thrown = "Token expired or invalid timestamp" -> 5

\* The first of the five checks, in that order, that `token` fails.
FirstFailure(token, secret, maxAgeMs, t) ==
    IF Len(token) # 2 THEN 1
    ELSE IF token[2] # createHmac(secret, token[1]) THEN 2
    ELSE LET text == base64urlDecode(token[1])
         IN  IF text.type = "invalid" THEN 3
             ELSE IF \/ text.type = "null"
                     \/ text.iat.type # "number"
                     \/ text.items.type # "array" THEN 4
             ELSE IF t - text.iat.num > maxAgeMs \/ t - text.iat.num < 0 THEN 5
             ELSE 0

\* C32: verifyToken reports the first check a token fails, in the order
\* segment count, signature, decode and parse, structure, age; so a token
\* with a wrong signature is refused for its signature whatever its
\* payload text and its age are.
C32_VerifyReportsFirstFailure ==
    [][ev'.method = "verifyToken" =>
          /\ StageOf(ev'.thrown) = FirstFailure(held[1].token, ev'.arg[1], ev'.id, now)
          /\ (/\ Len(held[1].token) = 2
              /\ held[1].token[2] # createHmac(ev'.arg[1], held[1].token[1]))
             => ev'.thrown = "Token signature invalid"]_vars

\* A token over text that is no JSON, signed with another secret than
\* the one it is verified with, was refused for its signature.
C32_BadSignatureOverBadPayload ==
    /\ ev.method = "verifyToken"
    /\ ev.thrown = "Token signature invalid"
    /\ Len(held[1].token) = 2
    /\ base64urlDecode(held[1].token[1]).type = "invalid"

\* C33: a sweep run that finds every entry of the map expired, and during
\* which no millisecond passes, removes the first min(sweepScanLimit,
\* number of entries) entries of the map's order and leaves the others
\* as they are.
C33_SweepOfAllExpiredTakesFront ==
    [][(/\ ev'.method = "sweep"
        /\ now' = now
        /\ \A i \in 1..Len(carts) : now > carts[i].expiresAt)
          => LET n == IF sweepScanLimit < Len(carts) THEN sweepScanLimit ELSE Len(carts)
             IN  carts' = SubSeq(carts, n + 1, Len(carts))]_vars

\* C34: an entry is expired only once the clock is past its expiresAt.  At
\* the instant the clock equals it, get returns the record and refreshes
\* it and update succeeds; a sweep run keeps every entry whose expiresAt
\* the clock has not passed; and get, update and sweep take out of the map
\* only entries whose expiresAt the clock has passed.
C34_ExpiryIsStrict ==
    [][/\ \A id \in CartIds :
             (MapHas(carts, id) /\ MapGet(carts, id).expiresAt = now) =>
                /\ (ev'.method = "get" /\ ev'.id = id) =>
                      /\ ev'.ret # <<>>
                      /\ MapHas(carts', id)
                      /\ MapGet(carts', id) = ev'.ret[1]
                      /\ ev'.ret[1].expiresAt = now + Ttl
                /\ (ev'.method = "update" /\ ev'.id = id) =>
                      /\ ev'.thrown = ""
                      /\ MapHas(carts', id)
       /\ ev'.method \in {"get", "update", "sweep"} =>
             \A i \in 1..Len(carts) :
                IF now' > carts[i].expiresAt
                THEN TRUE
                ELSE /\ MapHas(carts', carts[i].id)
                     /\ ev'.method = "sweep" => MapGet(carts', carts[i].id) = carts[i]]_vars

\* A sweep run has examined the one cart there is at the instant of its
\* expiresAt, some time after it was made, and the cart is in the map.
C34_KeptBySweepAtDeadline ==
    /\ ev.method = "sweep"
    /\ ev.id = 1
    /\ nextId = 2
    /\ Len(carts) = 1
    /\ carts[1].expiresAt = now
    /\ now > carts[1].createdAt

\* C35: a get that returns a record leaves the map with the same entries
\* in the same order; the entry read has updatedAt = now and expiresAt =
\* now + ttl and its id, items, totals, customer and createdAt as before,
\* and every other entry is as it was.
C35_GetChangesOnlyTimes ==
    [][(ev'.method = "get" /\ ev'.ret # <<>>) =>
          /\ Len(carts') = Len(carts)
          /\ \A i \in 1..Len(carts) :
                IF carts[i].id = ev'.id
                THEN /\ carts'[i].id = carts[i].id
                     /\ carts'[i].items = carts[i].items
                     /\ carts'[i].totals = carts[i].totals
                     /\ carts'[i].customer = carts[i].customer
                     /\ carts'[i].createdAt = carts[i].createdAt
                     /\ carts'[i].updatedAt = now
                     /\ carts'[i].expiresAt = now + Ttl
                     /\ DOMAIN carts'[i] = DOMAIN carts[i]
                ELSE carts'[i] = carts[i]]_vars

\* A get returned, some time after it was made, a cart with a line and a
\* customer, and the map holds a second cart.
C35_ReadOfFilledCartBesideAnother ==
    /\ ev.method = "get"
    /\ ev.ret # <<>>
    /\ ev.ret[1].items # <<>>
    /\ ev.ret[1].customer # <<>>
    /\ now > ev.ret[1].createdAt
    /\ Len(carts) = 2

\* C36: a request answered before any store method was called leaves the
\* map as it was: an add-item, customer or rehydrate request whose body is
\* refused (400), and a rehydrate request whose token verifyToken refuses
\* (401); no entry is changed, refreshed, added or removed.
C36_RefusedRequestLeavesStore ==
    [][(\/ resp'.http \in {400, 401}
        \/ ev'.method \in {"validateAddItemRequest", "validateCustomerRequest",
                            "validateRehydrationRequest", "rehydrateCart"})
          => /\ carts' = carts
             /\ nextId' = nextId]_vars

\* An add-item request for a live cart that a read would have refreshed
\* was answered with 400.
C36_AddItemRefusedOnLiveCart ==
    /\ resp.op = "addItem"
    /\ resp.http = 400
    /\ MapHas(carts, resp.id)
    /\ now <= MapGet(carts, resp.id).expiresAt
    /\ MapGet(carts, resp.id).expiresAt < now + Ttl

\* C37: the step of rehydrateCart that stores the cart it built puts that
\* one cart at the end of the map and leaves every entry that was there
\* as it was and where it was, expired or live; the rest of the method
\* leaves the map alone.  So an accepted rehydrateCart adds exactly one
\* entry, and the cart the token came from, if stored, stays as it is.
C37_RehydrateAddsOneEntry ==
    [][/\ \A p \in Procs :
             (/\ call[p].pc = "idle"
              /\ call'[p].op = "rehydrateCart"
              /\ call'[p].pc = "token") =>
                /\ Len(carts') = Len(carts) + 1
                /\ SubSeq(carts', 1, Len(carts)) = carts
                /\ carts'[Len(carts')] = call'[p].cart[1]
       /\ (resp'.op = "rehydrateCart" /\ resp'.status = "ok") => carts' = carts]_vars

\* rehydrateCart has stored its cart next to the cart the token came
\* from, which is at the instant of its expiresAt and was not refreshed.
C37_OriginalAtDeadlineBesideNew ==
    /\ call[1].op = "rehydrateCart"
    /\ call[1].pc = "token"
    /\ Len(carts) = 2
    /\ carts[1].id = 1
    /\ carts[1].items # <<>>
    /\ carts[1].expiresAt = now
    /\ carts[2] = call[1].cart[1]

\* The item ids of a cart.
ItemIdsOf(cart) == {cart.items[i].itemId : i \in 1..Len(cart.items)}

\* C38: a token made by createRehydrationToken can be presented again and
\* again: rehydrateCart refuses it only when its age is beyond maxAgeMs,
\* and each time it accepts it the cart stored is a new one, with an id
\* and line ids that no cart stored has, and with the same (sku, quantity)
\* lines as every cart built from the token before, which are the
\* quantities of the token summed by sku.
C38_TokenIsNotConsumed ==
    [][held # <<>> =>
          LET token == held[1].token
              age == now - TokenText(token).iat.num
          IN  /\ (resp'.op = "rehydrateCart" /\ resp'.status # "ok") => age > MaxAgeMs
              /\ (/\ call[1].pc = "idle"
                  /\ call'[1].op = "rehydrateCart"
                  /\ call'[1].pc = "token") =>
                    LET new == call'[1].cart[1]
                    IN  /\ age <= MaxAgeMs
                        /\ carts' = Append(carts, new)
                        /\ \A sku \in Skus :
                              QuantityOf(new.items, sku) = SumFor(TokenLines(token), sku)
                        /\ \A i \in 1..Len(carts) :
                              /\ carts[i].id # new.id
                              /\ ItemIdsOf(carts[i]) \cap ItemIdsOf(new) = {}
                              /\ Lines(carts[i].items) = Lines(new.items)]_vars

\* The token was presented and accepted a second time, later than the
\* first and at the last instant of its age: two carts with the same
\* lines are stored.
C38_SecondCartFromSameToken ==
    /\ call[1].op = "rehydrateCart"
    /\ call[1].pc = "token"
    /\ Len(carts) = 2
    /\ carts[1].items # <<>>
    /\ carts[1].createdAt < carts[2].createdAt
    /\ now - TokenText(held[1].token).iat.num = MaxAgeMs
    /\ Lines(carts[1].items) = Lines(carts[2].items)
====
